---- MODULE Spec2Model ----
(***************************************************************************)
(* A model of the snmptools library: the OID algebra, the SMI tree and its *)
(* two walkers (GetLeaf, NextLeaf) and the pass-persist protocol engine    *)
(* (PassPersistExtension: Serve, scanInput, handleLine).                   *)
(*                                                                         *)
(* Go values are modelled as follows.                                      *)
(*   - a string is a sequence of one-character strings;                    *)
(*   - an OID ([]uint32) is a sequence of naturals below U32; where the    *)
(*     code distinguishes a nil slice from an empty one the OID travels in *)
(*     a record [st, v] with st = "nil";                                   *)
(*   - an SMINode is a record: [kind |-> "subtree", leaves |-> <<...>>] or *)
(*     [kind |-> "leaf", leaf |-> [asnType, value]]; the nil interface is  *)
(*     NilNode;                                                            *)
(*   - a run-time panic (index out of range, nil dereference) is the       *)
(*     distinguished result PanicNode / PanicOID, and makes Serve end in   *)
(*     the position "panicked".                                            *)
(***************************************************************************)
EXTENDS Integers, Sequences, FiniteSets, TLC

(***************************************************************************)
(* Bounds of the model.                                                    *)
(***************************************************************************)
\* largest number of nodes of a tree handed to the walkers
MaxNodes == 5
\* largest number of nodes of a tree returned by the refresh callback
MaxCbNodes == 3
\* largest small component of an OID handed to the walkers
MaxComp == 3
\* largest length of an OID handed to the walkers
MaxOidLen == 2
\* the longest OID the OID operations are called with
MaxOidArg == 2
\* the buffers the C heap hands out
MaxBufs == 3
\* largest number of successive NextLeaf calls of one walk
MaxWalk == 6
\* largest number of lines the input stream delivers
MaxInput == 3
\* the width in bits of an OID component in the model
UintBits == 8

(***************************************************************************)
(* Program constants.                                                      *)
(***************************************************************************)
\* TLC's integers are 32 bits wide, so the two integer types the code converts
\* between keep their relation at a smaller scale: a uint32 (an OID component)
\* is UintBits wide, an int (the result of strconv.Atoi) twice as wide.
\* uint32 arithmetic is modulo U32; Atoi fails outside -MaxInt-1 .. MaxInt.
U32 == 2 ^ UintBits
MaxInt == 2 ^ (2 * UintBits - 1) - 1

AsnInteger == 2
AsnOctetString == 4
AsnObjectIdentifier == 6
AsnIpAddress == 64
AsnCounter32 == 65
AsnGauge32 == 66
AsnTimeTicks == 67
AsnCounter64 == 70

PassPersistTypes ==
    {AsnInteger, AsnGauge32, AsnCounter32, AsnTimeTicks, AsnIpAddress,
     AsnObjectIdentifier, AsnOctetString}

(***************************************************************************)
(* Strings: decimal formatting and parsing, splitting, lower-casing.       *)
(***************************************************************************)
Digits == <<"0", "1", "2", "3", "4", "5", "6", "7", "8", "9">>

IsDigit(c) == \E i \in 1..10 : Digits[i] = c

DigitVal(c) == (CHOOSE i \in 1..10 : Digits[i] = c) - 1

\* a formatting that writes the last decimal digit only
FormatLastDigit(n) == <<Digits[(n % 10) + 1]>>

\* fmt.Sprintf("%d", n) for n >= 0
RECURSIVE FormatDecimal(_)
FormatDecimal(n) ==
    IF n < 10 THEN <<Digits[n + 1]>>
    ELSE FormatDecimal(n \div 10) \o <<Digits[(n % 10) + 1]>>

\* the value of a sequence of decimal digits
RECURSIVE DigitsValue(_)
DigitsValue(s) ==
    IF Len(s) = 0 THEN 0
    ELSE 10 * DigitsValue(SubSeq(s, 1, Len(s) - 1)) + DigitVal(s[Len(s)])

\* strconv.Atoi: an optional sign, then one or more decimal digits, the value
\* within the range of int
Atoi(s) ==
    LET signed == Len(s) > 0 /\ s[1] \in {"+", "-"}
        body == IF signed THEN Tail(s) ELSE s
        mag == DigitsValue(body)
    IN  IF Len(body) = 0 \/ \E i \in 1..Len(body) : ~IsDigit(body[i])
        THEN [err |-> TRUE, conv |-> 0]
        ELSE IF signed /\ s[1] = "-"
             THEN IF mag > MaxInt + 1 THEN [err |-> TRUE, conv |-> 0]
                  ELSE [err |-> FALSE, conv |-> 0 - mag]
             ELSE IF mag > MaxInt THEN [err |-> TRUE, conv |-> 0]
                  ELSE [err |-> FALSE, conv |-> mag]

\* strings.Split(s, "."): the pieces of s between the dots, at least one piece
RECURSIVE Split(_)
Split(s) ==
    IF \A i \in 1..Len(s) : s[i] # "."
    THEN <<s>>
    ELSE LET k == CHOOSE i \in 1..Len(s) :
                      s[i] = "." /\ \A j \in 1..(i - 1) : s[j] # "."
         IN  <<SubSeq(s, 1, k - 1)>> \o Split(SubSeq(s, k + 1, Len(s)))

UpperCase == <<"E", "G", "I", "N", "O", "P", "T", "X">>
LowerCase == <<"e", "g", "i", "n", "o", "p", "t", "x">>

\* a conversion that keeps the case of every letter. The case-insensitive
\* matching of the commands tells it from ToLower.
KeepCase(s) == s

\* strings.ToLower
ToLower(s) ==
    [i \in 1..Len(s) |->
        IF \E k \in 1..Len(UpperCase) : UpperCase[k] = s[i]
        THEN LowerCase[CHOOSE k \in 1..Len(UpperCase) : UpperCase[k] = s[i]]
        ELSE s[i]]

(***************************************************************************)
(* OID                                                                     *)
(***************************************************************************)
\* a Go OID value that may be the nil slice, and a panic in its place
OIDVal(s) == [st |-> "ok", v |-> s]
NilOID == [st |-> "nil", v |-> <<>>]
PanicOID == [st |-> "panic", v |-> <<>>]

\* OID.Equals
Equals(oid, other) ==
    IF Len(other) # Len(oid) THEN FALSE
    ELSE \A i \in 1..Len(oid) : oid[i] = other[i]

\* OID.Copy
Copy(oid) == [i \in 1..Len(oid) |-> oid[i]]

\* an Add that puts the partial OID in front
AddInFront(oid, partial) ==
    [i \in 1..(Len(oid) + Len(partial)) |->
        IF i <= Len(partial) THEN partial[i] ELSE oid[i - Len(partial)]]

\* OID.Add
Add(oid, partial) ==
    [i \in 1..(Len(oid) + Len(partial)) |->
        IF i <= Len(oid) THEN oid[i] ELSE partial[i - Len(oid)]]

\* OID.GetRemainder: the nil partial is returned with every error and when the
\* two lengths are equal
GetRemainder(oid, root) ==
    IF Len(root) > Len(oid) THEN [err |-> "OIDNotMatch", partial |-> NilOID]
    ELSE IF Len(root) = Len(oid) THEN [err |-> "nil", partial |-> NilOID]
    ELSE IF \E i \in 1..Len(root) : root[i] # oid[i]
         THEN [err |-> "OIDNotMatch", partial |-> NilOID]
         ELSE [err |-> "nil",
               partial |-> OIDVal(SubSeq(oid, Len(root) + 1, Len(oid)))]

\* NewOIDFromString: the piece before the first dot is skipped; on a bad piece
\* the OID built so far (zero-filled) is returned with BadOID
NewOIDFromString(s) ==
    LET spl == Split(s)
        rest == Tail(spl)
        bad == {i \in 1..Len(rest) : Atoi(rest[i]).err}
        firstBad == CHOOSE i \in bad : \A j \in bad : i <= j
    IN  IF bad # {}
        THEN [err |-> "BadOID",
              o |-> [i \in 1..Len(rest) |->
                        IF i < firstBad THEN Atoi(rest[i]).conv % U32 ELSE 0]]
        ELSE [err |-> "nil",
              o |-> [i \in 1..Len(rest) |-> Atoi(rest[i]).conv % U32]]

\* OID.String of a non-nil OID
RECURSIVE OIDString(_)
OIDString(oid) ==
    IF Len(oid) = 0 THEN <<>>
    ELSE OIDString(SubSeq(oid, 1, Len(oid) - 1))
            \o <<".">> \o FormatDecimal(oid[Len(oid)])

(***************************************************************************)
(* SMI tree                                                                *)
(***************************************************************************)
\* the nil SMINode interface value, and a run-time panic in place of a node
NilNode == [kind |-> "nil"]
PanicNode == [kind |-> "panic"]

\* NewSMILeaf: the leaf is built whatever the type
NewSMILeaf(asnType, value) == [asnType |-> asnType, value |-> value]

\* NewLeafNode
NewLeafNode(leaf) == [kind |-> "leaf", leaf |-> leaf]

\* NewSMISubtree: the children are never the nil slice
NewSMISubtree(leaves) == [kind |-> "subtree", leaves |-> leaves]

\* Children() == nil: true of a LeafNode only
ChildrenNil(node) == node.kind # "subtree"

\* Children(): the nil slice of a LeafNode has length 0
Children(node) == IF node.kind = "subtree" THEN node.leaves ELSE <<>>

\* Value() == nil: true of an SMISubtree
ValueNil(node) == node.kind # "leaf"

\* Value(): only read where it is not nil
Value(node) == node.leaf

\* the scalar types the application gives its leaves, in turn
LeafTypes == <<AsnInteger, AsnGauge32, AsnOctetString, AsnCounter32>>

\* the k-th leaf the application builds: leaves of one tree are all different
LeafNumber(k) ==
    NewLeafNode(NewSMILeaf(LeafTypes[((k - 1) % Len(LeafTypes)) + 1], 40 + k))

RECURSIVE LeafCount(_)
LeafCount(t) ==
    IF t.kind # "subtree" THEN 1
    ELSE LET RECURSIVE sum(_)
             sum(i) == IF i = 0 THEN 0 ELSE sum(i - 1) + LeafCount(t.leaves[i])
         IN  sum(Len(t.leaves))

\* the tree t with its leaves replaced by LeafNumber(k+1), LeafNumber(k+2), ...
\* in pre-order
RECURSIVE Relabel(_, _)
Relabel(t, k) ==
    IF t.kind # "subtree" THEN LeafNumber(k + 1)
    ELSE LET RECURSIVE before(_)
             before(i) ==
                 IF i = 0 THEN 0 ELSE before(i - 1) + LeafCount(t.leaves[i])
         IN  NewSMISubtree([i \in 1..Len(t.leaves) |->
                               Relabel(t.leaves[i], k + before(i - 1))])

\* the tree shapes of exactly n nodes, and the non-empty sequences of shapes of
\* n nodes in all: what NewSMISubtree, AddChild and NewLeafNode can build
RECURSIVE ShapesOfSize(_), Forests(_)
ShapesOfSize(n) ==
    IF n = 1 THEN {LeafNumber(1), NewSMISubtree(<<>>)}
    ELSE {NewSMISubtree(f) : f \in Forests(n - 1)}

Forests(n) ==
    {<<t>> : t \in ShapesOfSize(n)}
      \cup UNION {{<<t>> \o f : t \in ShapesOfSize(k), f \in Forests(n - k)} :
                     k \in 1..(n - 1)}

\* the trees of at most n nodes
TreesUpTo(n) == {Relabel(t, 0) : t \in UNION {ShapesOfSize(k) : k \in 1..n}}

(***************************************************************************)
(* Tree walkers                                                            *)
(***************************************************************************)
\* a GetLeaf that numbers the children of a subtree from 0: component i selects
\* the child after the i-th. The properties of GetLeaf tell the two apart.
RECURSIVE GetLeafZeroBased(_, _)
GetLeafZeroBased(node, oid) ==
    IF Len(oid) = 0 THEN NilNode
    ELSE IF ChildrenNil(node) THEN NewLeafNode(Value(node))
    ELSE IF oid[1] >= Len(Children(node)) THEN NilNode
    ELSE IF Len(oid) = 1 THEN Children(node)[oid[1] + 1]
    ELSE GetLeafZeroBased(Children(node)[oid[1] + 1], Tail(oid))

\* GetLeaf. The bound test is made on int(oid[0])-1, the index on the uint32
\* oid[0]-1: a component 0 passes the test (-1 < len) and indexes the slice at
\* the largest uint32, which is a run-time panic.
RECURSIVE GetLeaf(_, _)
GetLeaf(node, oid) ==
    IF Len(oid) = 0 THEN NilNode
    ELSE IF ChildrenNil(node) THEN NewLeafNode(Value(node))
    ELSE IF oid[1] - 1 >= Len(Children(node)) THEN NilNode
    ELSE IF (oid[1] - 1) % U32 >= Len(Children(node)) THEN PanicNode
    ELSE IF Len(oid) = 1 THEN Children(node)[((oid[1] - 1) % U32) + 1]
    ELSE GetLeaf(Children(node)[((oid[1] - 1) % U32) + 1], Tail(oid))

\* a replacement of the trailing 0 that writes into the slice it was given:
\* the caller's OID shares the array and ends in 1 afterwards
StartOIDInPlace(oidIn) ==
    IF Len(oidIn) = 0 THEN [oid |-> <<1>>, caller |-> oidIn]
    ELSE IF oidIn[Len(oidIn)] = 0
    THEN [oid |-> [oidIn EXCEPT ![Len(oidIn)] = 1],
          caller |-> [oidIn EXCEPT ![Len(oidIn)] = 1]]
    ELSE [oid |-> oidIn, caller |-> oidIn]

\* The start of NextLeaf (lines 74-84): the OID it goes on with, and what the
\* slice of the caller holds afterwards. The empty OID is replaced by a new
\* OID, a trailing 0 is replaced in a copy.
StartOID(oidIn) ==
    IF Len(oidIn) = 0 THEN [oid |-> <<1>>, caller |-> oidIn]
    ELSE IF oidIn[Len(oidIn)] = 0
    THEN [oid |-> [Copy(oidIn) EXCEPT ![Len(oidIn)] = 1], caller |-> oidIn]
    ELSE [oid |-> oidIn, caller |-> oidIn]

\* NextLeaf, and the loop of its last branch (ClimbLoop: lines 125-139, entered
\* with newOID; the return after the loop is line 142).
RECURSIVE NextLeaf(_, _), ClimbLoop(_, _)
NextLeaf(node, oidIn) ==
    LET oid == StartOID(oidIn).oid
        thisBranch == GetLeaf(node, oid)
        children == Children(thisBranch)
    IN  IF thisBranch = PanicNode THEN PanicOID
        ELSE IF thisBranch = NilNode THEN NilOID
        ELSE IF ~ChildrenNil(thisBranch) /\ Len(children) = 0 THEN NilOID
        ELSE IF ~ChildrenNil(thisBranch) /\ ~ValueNil(children[1])
             THEN OIDVal(Add(oid, <<1>>))
        ELSE IF ~ChildrenNil(thisBranch)
             THEN LET below == NextLeaf(thisBranch, <<1>>)
                  IN  IF below.st = "panic" THEN PanicOID
                      ELSE OIDVal(Add(oid, below.v))
        ELSE IF ValueNil(thisBranch) THEN PanicOID
        ELSE LET newOID == [Copy(oid) EXCEPT ![Len(oid)] = (@ + 1) % U32]
                 newNode == GetLeaf(node, newOID)
             IN  IF newNode = PanicNode THEN PanicOID
                 ELSE IF newNode # NilNode THEN OIDVal(newOID)
                 ELSE ClimbLoop(node, newOID)

ClimbLoop(node, newOID) ==
    IF Len(newOID) > 0
    THEN LET cut == SubSeq(newOID, 1, Len(newOID) - 1)
         IN  IF Len(cut) = 0
             THEN PanicOID     \* newOID[len(newOID)-1] with len(newOID) = 0
             ELSE LET up == [cut EXCEPT ![Len(cut)] = (@ + 1) % U32]
                      n == GetLeaf(node, Add(up, <<1>>))
                  IN  IF n = PanicNode THEN PanicOID
                      ELSE IF n # NilNode
                           THEN IF ~ValueNil(n) THEN OIDVal(Add(up, <<1>>))
                                ELSE NextLeaf(node, Add(up, <<1>>))
                           ELSE ClimbLoop(node, up)
    ELSE NilOID

(***************************************************************************)
(* Pass-persist engine                                                     *)
(***************************************************************************)
\* AsnType.PrettyString: the lower-case type names of the pass-persist types
PrettyString(asnType) ==
    CASE asnType = AsnInteger -> <<"i", "n", "t", "e", "g", "e", "r">>
      [] asnType = AsnGauge32 -> <<"g", "a", "u", "g", "e">>
      [] asnType = AsnCounter32 -> <<"c", "o", "u", "n", "t", "e", "r">>
      [] asnType = AsnTimeTicks -> <<"t", "i", "m", "e", "t", "i", "c", "k", "s">>
      [] asnType = AsnIpAddress -> <<"i", "p", "a", "d", "d", "r", "e", "s", "s">>
      [] asnType = AsnObjectIdentifier -> <<"o", "b", "j", "e", "c", "t", "i", "d">>
      [] asnType = AsnOctetString -> <<"s", "t", "r", "i", "n", "g">>

\* the verb %v applied to the int a leaf holds
FormatValue(value) == FormatDecimal(value)

PONG == <<"P", "O", "N", "G">>
None == <<"N", "o", "n", "e">>

\* what a call of handleLine did: the state and error it returned, the lines
\* it wrote to output, the tree held afterwards, whether update() was called,
\* and whether the call panicked
Done(next, err, out, tree, updated, panic) ==
    [next |-> next, err |-> err, out |-> out, tree |-> tree,
     updated |-> updated, panic |-> panic]

\* a command switch that ignores the blank line. The end of the session on a
\* blank line tells it from HandleCommand.
HandleCommandBlankIgnored(lower, mibTree) ==
    IF lower = <<"p", "i", "n", "g">> THEN Done("wait", "nil", <<PONG>>, mibTree, FALSE, FALSE)
    ELSE IF lower = <<"g", "e", "t">> THEN Done("get", "nil", <<>>, mibTree, FALSE, FALSE)
    ELSE IF lower = <<"g", "e", "t", "n", "e", "x", "t">> THEN Done("getNext", "nil", <<>>, mibTree, FALSE, FALSE)
    ELSE Done("wait", "nil", <<>>, mibTree, FALSE, FALSE)

\* a command switch in which getnext falls into the get case. The properties
\* of the state machine tell it from HandleCommand.
HandleCommandNextAsGet(lower, mibTree) ==
    IF lower = <<>> THEN Done("shutdown", "nil", <<>>, mibTree, FALSE, FALSE)
    ELSE IF lower = <<"p", "i", "n", "g">> THEN Done("wait", "nil", <<PONG>>, mibTree, FALSE, FALSE)
    ELSE IF lower \in {<<"g", "e", "t">>, <<"g", "e", "t", "n", "e", "x", "t">>}
    THEN Done("get", "nil", <<>>, mibTree, FALSE, FALSE)
    ELSE Done("wait", "nil", <<>>, mibTree, FALSE, FALSE)

\* handleLine, case waitState
HandleCommand(lower, mibTree) ==
    IF lower = <<>> THEN Done("shutdown", "nil", <<>>, mibTree, FALSE, FALSE)
    ELSE IF lower = <<"p", "i", "n", "g">> THEN Done("wait", "nil", <<PONG>>, mibTree, FALSE, FALSE)
    ELSE IF lower = <<"g", "e", "t">> THEN Done("get", "nil", <<>>, mibTree, FALSE, FALSE)
    ELSE IF lower = <<"g", "e", "t", "n", "e", "x", "t">> THEN Done("getNext", "nil", <<>>, mibTree, FALSE, FALSE)
    ELSE Done("wait", "nil", <<>>, mibTree, FALSE, FALSE)

\* handleLine, the reply: None when there is no leaf or no OID; else the three
\* lines, where leaf.Value().asnType panics when the node is a subtree (its
\* Value() is nil)
Respond(oid, leaf, tree, updated) ==
    IF leaf = PanicNode THEN Done("wait", "nil", <<>>, tree, updated, TRUE)
    ELSE IF leaf = NilNode \/ oid.st = "nil"
    THEN Done("wait", "nil", <<None>>, tree, updated, FALSE)
    ELSE IF ValueNil(leaf)
    THEN Done("wait", "nil", <<>>, tree, updated, TRUE)
    ELSE Done("wait", "nil",
              <<OIDString(oid.v), PrettyString(Value(leaf).asnType),
                FormatValue(Value(leaf).value)>>,
              tree, updated, FALSE)

\* handleLine, case getNextState once NextLeaf has returned next: a nil OID
\* leaves the switch by `break`, past the reply
RespondNext(next, tree, updated, root) ==
    IF next.st = "panic" THEN Done("wait", "nil", <<>>, tree, updated, TRUE)
    ELSE IF next.st = "nil" THEN Done("wait", "nil", <<>>, tree, updated, FALSE)
    ELSE Respond(OIDVal(Add(root, next.v)), GetLeaf(tree, next.v), tree,
                 updated)

\* a GET that answers with the OID relative to the root in place of the
\* requested one. The properties of the GET reply tell it from Resolve.
ResolveRelative(currentState, o, tree, updated, rem, root) ==
    IF rem.err # "nil" THEN Done("error", rem.err, <<>>, tree, updated, FALSE)
    ELSE IF currentState = "get"
    THEN Respond(OIDVal(rem.partial.v), GetLeaf(tree, rem.partial.v), tree,
                 updated)
    ELSE RespondNext(NextLeaf(tree, rem.partial.v), tree, updated, root)

\* handleLine, case getState, getNextState once the line is parsed as o, the
\* tree is refreshed if o is the root, and rem is o.GetRemainder(root)
Resolve(currentState, o, tree, updated, rem, root) ==
    IF rem.err # "nil" THEN Done("error", rem.err, <<>>, tree, updated, FALSE)
    ELSE IF currentState = "get"
    THEN Respond(OIDVal(o), GetLeaf(tree, rem.partial.v), tree, updated)
    ELSE RespondNext(NextLeaf(tree, rem.partial.v), tree, updated, root)

\* a request handler that hands the walkers the tree held before the refresh
\* and stores the refreshed tree afterwards. The refresh ordering tells it
\* from HandleRequest.
HandleRequestStale(currentState, parsed, mibTree, root, fresh) ==
    IF parsed.err # "nil"
    THEN Done("error", parsed.err, <<>>, mibTree, FALSE, FALSE)
    ELSE [Resolve(currentState, parsed.o, mibTree, Equals(parsed.o, root),
                  GetRemainder(parsed.o, root), root)
             EXCEPT !.tree = IF Equals(parsed.o, root) THEN fresh ELSE mibTree]

\* a request handler that calls update() for every request under the root.
\* The refresh frame tells it from HandleRequest.
HandleRequestRefreshUnderRoot(currentState, parsed, mibTree, root, fresh) ==
    IF parsed.err # "nil"
    THEN Done("error", parsed.err, <<>>, mibTree, FALSE, FALSE)
    ELSE Resolve(currentState, parsed.o,
                 IF Equals(parsed.o, root) THEN fresh ELSE mibTree,
                 GetRemainder(parsed.o, root).err = "nil",
                 GetRemainder(parsed.o, root), root)

\* handleLine, case getState, getNextState: parsed is NewOIDFromString(line),
\* fresh is what the callback returns if update() is called
HandleRequest(currentState, parsed, mibTree, root, fresh) ==
    IF parsed.err # "nil"
    THEN Done("error", parsed.err, <<>>, mibTree, FALSE, FALSE)
    ELSE Resolve(currentState, parsed.o,
                 IF Equals(parsed.o, root) THEN fresh ELSE mibTree,
                 Equals(parsed.o, root), GetRemainder(parsed.o, root), root)

\* handleLine(line) in state currentState with the tree mibTree held
HandleLine(currentState, line, mibTree, root, fresh) ==
    IF currentState = "wait"
    THEN HandleCommand(ToLower(line), mibTree)
    ELSE HandleRequest(currentState, NewOIDFromString(line), mibTree, root,
                       fresh)

\* whether handleLine(line) calls update()
CallsUpdate(currentState, line, root) ==
    /\ currentState # "wait"
    /\ NewOIDFromString(line).err = "nil"
    /\ Equals(NewOIDFromString(line).o, root)

(***************************************************************************)
(* AgentX: the handler registry (OIDHandlers) and the typed handlers       *)
(***************************************************************************)
\* the names handlers are registered under
Names == {"a", "b"}

\* the handlers the application builds: two of them share the name "a",
\* one of these was built with the empty OID.
\* kind is the handler type, id tells the handlers apart.
HandlerPool ==
    {[name |-> "a", kind |-> "int", id |-> 1, oid |-> <<1>>],
     [name |-> "a", kind |-> "string", id |-> 2, oid |-> <<>>],
     [name |-> "b", kind |-> "bool", id |-> 3, oid |-> <<2>>]}

\* the nil OIDHandler: what a map access yields for a missing key
NoHandler == [name |-> "", kind |-> "nil", id |-> 0, oid |-> <<>>]

\* make(map[string]OIDHandler): a map is a function on the names, NoHandler
\* where the key is missing
EmptyMap == [n \in Names |-> NoHandler]

\* OIDHandlers.All, between RLock and RUnlock: the handlers in the map (the
\* order of the list is that of the map iteration, and is left out)
HandlersAll(m) == {m[n] : n \in {k \in Names : m[k] # NoHandler}}

\* OIDHandlers.Add, between Lock and Unlock
\* an Add that keeps the handler already stored under the name
HandlersAddKeep(m, handler) ==
    IF m[handler.name] # NoHandler THEN m
    ELSE [m EXCEPT ![handler.name] = handler]

HandlersAdd(m, handler) == [m EXCEPT ![handler.name] = handler]

\* OIDHandlers.Get, between RLock and RUnlock: v, ok := h.m[name]
HandlersGet(m, name) == [h |-> m[name], ok |-> m[name] # NoHandler]

\* OIDHandlers.Remove, between Lock and Unlock: the map afterwards and the
\* handler returned
HandlersRemove(m, name) ==
    [m |-> [m EXCEPT ![name] = NoHandler], handler |-> m[name]]

\* OIDHandlers.RemoveAll, between Lock and Unlock
\* a RemoveAll that leaves the map as it is
HandlersRemoveNone(m) == m

HandlersRemoveAll(m) == [n \in Names |-> NoHandler]

\* the argument of a call that takes a name
NameArg(n) == [name |-> n, kind |-> "name", id |-> 0, oid |-> <<>>]

\* the calls that write the registry and those that read it
WriteCalls ==
    {[op |-> "Add", arg |-> h] : h \in HandlerPool}
      \cup {[op |-> "Remove", arg |-> NameArg(n)] : n \in Names}
      \cup {[op |-> "RemoveAll", arg |-> NoHandler]}

ReadCalls ==
    {[op |-> "Get", arg |-> NameArg(n)] : n \in Names}
      \cup {[op |-> "All", arg |-> NoHandler]}

\* the handlers added and not removed since, after a call that writes
AddedAfter(set, call) ==
    CASE call.op = "Add" ->
            {x \in set : x.name # call.arg.name} \cup {call.arg}
      [] call.op = "Remove" -> {x \in set : x.name # call.arg.name}
      [] call.op = "RemoveAll" -> {}

\* what happened to the registry since the run loop was entered: RemoveAll
\* acted ("removed"), a lookup then missed ("missed"), a handler was added
\* after that ("readded"), its callback then answered ("served")
PhaseAfterWrite(ph, op) ==
    CASE op = "RemoveAll" /\ ph = "running" -> "removed"
      [] op = "Add" /\ ph = "missed" -> "readded"
      [] OTHER -> ph

\* the request modes of the master agent
Modes == {"MODE_GET", "MODE_SET"}

\* the response of a request: not set, or set with a type
NoResponse == [set |-> FALSE, type |-> 0]
TypedResponse(type) == [set |-> TRUE, type |-> type]

\* IntHandler.Callback, BooleanHandler.Callback, StringHandler.Callback:
\* the response the handler sets when its callback returned no error
CallbackResponse(h) ==
    IF h.kind = "string" THEN TypedResponse(AsnOctetString)
    ELSE TypedResponse(AsnInteger)

\* the outcome of one request that the master agent handed over
Dispatch(mode, name, found, called, failed, h, status, response) ==
    [kind |-> "dispatch", mode |-> mode, name |-> name, found |-> found,
     called |-> called, failed |-> failed, h |-> h, status |-> status,
     response |-> response]

\* golangReentrantHandler answering SNMP_ERR_GENERR for a missing handler
ShimMissingIsError(name) ==
    Dispatch("MODE_GET", name, FALSE, FALSE, FALSE, NoHandler,
             "SNMP_ERR_GENERR", NoResponse)

\* golangReentrantHandler, after the lookup: the handler is missing
ShimMissing(name) ==
    Dispatch("MODE_GET", name, FALSE, FALSE, FALSE, NoHandler,
             "SNMP_ERR_NOERROR", NoResponse)

\* golangReentrantHandler, after the callback of the handler h
ShimCalled(h, failed) ==
    IF failed
    THEN Dispatch("MODE_GET", h.name, TRUE, TRUE, TRUE, h,
                  "SNMP_ERR_GENERR", NoResponse)
    ELSE Dispatch("MODE_GET", h.name, TRUE, TRUE, FALSE, h,
                  "SNMP_ERR_NOERROR", CallbackResponse(h))

\* the goroutines of the application
Threads == {"t1", "t2"}

\* sync.RWMutex: the goroutine holding the write lock ("" if none) and those
\* holding the read lock
FreeMutex == [writer |-> "", readers |-> {}]
CanLock(mu) == mu.writer = "" /\ mu.readers = {}
\* an RLock that does not wait for the writer
CanRLockAlways(mu) == TRUE

CanRLock(mu) == mu.writer = ""

\* a goroutine that is in no call, with the record of its last call

\* an RUnlock that leaves the goroutine among the readers
RUnlockKept(mu, t) == mu

\* h.RUnlock() and h.Unlock() by the goroutine t
RUnlock(mu, t) == [mu EXCEPT !.readers = @ \ {t}]
Unlock(mu, t) == [mu EXCEPT !.writer = ""]

\* the goroutine t holds the lock, as a reader or as the writer
Holds(mu, t) == mu.writer = t \/ t \in mu.readers

NoResult == [kind |-> "none"]
Idle == [pc |-> "idle", op |-> "none", arg |-> NoHandler, res |-> NoResult,
         seen |-> {}]

(***************************************************************************)
(* State                                                                   *)
(***************************************************************************)
VARIABLES
    \* PassPersistExtension
    root,           \* ppe.root
    currentState,   \* ppe.currentState
    mibTree,        \* ppe.mibTree
    output,         \* the lines written to ppe.output so far
    \* Serve and scanInput
    pc,             \* Serve: "start", "select", "returned", "panicked"
    retErr,         \* the error Serve returned
    readerPc,       \* scanInput: "idle", "scan", "send" (blocked sending a
                    \* line on ppe.lines), "closeErrors", "closeLines", "done"
    nread,          \* the number of lines scanned so far
    scanErr,        \* whether scanner.Err() is non-nil
    errorsClosed,   \* close(ppe.errors) was executed
    linesClosed,    \* close(ppe.lines) was executed
    last,           \* the last call of handleLine: its arguments, the OID
                    \* it parsed and its result
    \* a call of the tree walkers on their own
    node,           \* the tree handed to GetLeaf and NextLeaf
    oid,            \* the OID handed to them
    found,          \* the result of GetLeaf(node, oid), once called
    trail,          \* the OIDs returned by the successive NextLeaf calls
    walkEnd         \* "running", or how the walk ended: "nil", "panic"

engineVars ==
    <<root, currentState, mibTree, output, pc, retErr, readerPc, nread,
      scanErr, errorsClosed, linesClosed, last>>

walkVars == <<node, oid, found, trail, walkEnd>>

VARIABLES
    \* the AgentX side
    handlers,       \* Handlers.m
    mutex,          \* Handlers.RWMutex
    thr,            \* per goroutine: its position in the call it is making,
                    \* the call, its argument, its result, and the set of
                    \* handlers added and not removed when it read or wrote
                    \* the map
    added,          \* the handlers added and not removed since, one per name
    initialized,    \* the package variable initialized
    inits,          \* how many times init_agent() was executed
    registered,     \* the names registered with the master agent
    keepRunning,    \* the C variable keep_running
    agentRunning,   \* the C variable agent_running
    phase           \* what happened to the registry since the loop was entered

agentVars ==
    <<handlers, mutex, thr, added, initialized, inits, registered,
      keepRunning, agentRunning, phase>>

VARIABLES
    \* the OID operations
    oidR,           \* an OID: the receiver of the call
    oidS,           \* an OID: the argument of the call
    oidCall         \* the last call made on them and what it returned

oidVars == <<oidR, oidS, oidCall>>

VARIABLES
    \* one StringHandler and the C heap
    storage,        \* h.storage: a buffer, or NilPointer
    heap,           \* per buffer: how often it was allocated and released
    inv             \* per goroutine: its position in h.Callback, the buffer
                    \* it allocated, and how its last invocation ended

stringVars == <<storage, heap, inv>>

vars == <<engineVars, walkVars, agentVars, oidVars, stringVars>>

(***************************************************************************)
(* Inputs                                                                  *)
(***************************************************************************)
\* the sequences over S of length at most n
SeqsUpTo(S, n) == UNION {[1..k -> S] : k \in 0..n}

\* the roots an extension is registered at
Roots == {<<1, 3>>}

\* the trees the refresh callback returns
CallbackTrees == TreesUpTo(MaxCbNodes)

\* the OIDs snmpd asks for under the root r: r itself, r followed by one or two
\* components, and OIDs outside r (one as long as r, one shorter, one longer)
RelativeOIDs == SeqsUpTo(0..2, 1) \cup {<<1, 1>>, <<1, 2>>, <<2, 1>>}

RequestOIDs(r) ==
    {Add(r, rel) : rel \in RelativeOIDs}
      \cup {[r EXCEPT ![Len(r)] = @ + 1],
            SubSeq(r, 1, Len(r) - 1),
            Add([r EXCEPT ![Len(r)] = @ + 1], <<1>>)}

\* the lines of the input stream: commands in either case, a blank line, other
\* text, well-formed OID lines and malformed ones
CommandLines ==
    {<<"g", "e", "t">>, <<"G", "E", "T">>, <<"g", "e", "t", "n", "e", "x", "t">>, <<"G", "e", "t", "N", "E", "X", "T">>, <<"p", "i", "n", "g">>, <<"P", "i", "N", "G">>, <<>>, <<"x">>}

MalformedLines(r) ==
    {OIDString(r) \o <<".", "x">>,
     OIDString(r) \o <<".">>,
     OIDString(r) \o <<".", "+", "1">>,
     <<"x">> \o OIDString(r) \o <<".", "1">>,
     Tail(OIDString(r)) \o <<".", "1">>}

InputLines(r) ==
    CommandLines \cup {OIDString(o) : o \in RequestOIDs(r)} \cup MalformedLines(r)

\* the OIDs handed to the walkers: small components and the largest uint32
Components == (0..MaxComp) \cup {U32 - 1}
WalkOIDs == SeqsUpTo(Components, MaxOidLen)

NoCall == [kind |-> "none"]

\* no line was parsed: handleLine parses the line in getState, getNextState
NoParse == [err |-> "none", o |-> <<>>]

NoLast ==
    [state |-> "none", line |-> <<>>, parsed |-> NoParse, next |-> "none",
     err |-> "nil", out |-> <<>>, before |-> NilNode, updated |-> FALSE,
     panic |-> FALSE]

(***************************************************************************)
(* Pass-persist engine: NewPassPersistExtension, Serve, scanInput          *)
(***************************************************************************)
EngineIdle ==
    /\ root = <<>> /\ currentState = "wait" /\ mibTree = NilNode
    /\ output = <<>> /\ pc = "idle" /\ retErr = "nil" /\ readerPc = "idle"
    /\ nread = 0 /\ scanErr = FALSE
    /\ errorsClosed = FALSE /\ linesClosed = FALSE /\ last = NoLast

WalkIdle ==
    /\ node = NilNode /\ oid = <<>> /\ found = NoCall /\ trail = <<>>
    /\ walkEnd = "idle"

AgentIdle ==
    /\ handlers = EmptyMap /\ mutex = FreeMutex
    /\ thr = [t \in Threads |-> Idle] /\ added = {}
    /\ initialized = FALSE /\ inits = 0 /\ registered = {}
    /\ keepRunning = FALSE /\ agentRunning = FALSE
    /\ phase = "none"

\* no OID operation was called
NoOIDCall ==
    [op |-> "none", str |-> <<>>, err |-> "nil", o |-> NilOID]

OIDIdle == oidR = <<>> /\ oidS = <<>> /\ oidCall = NoOIDCall

\* the nil unsafe.Pointer
NilPointer == 0

Buffers == 1..MaxBufs

\* a buffer that was never allocated
Unused == [state |-> "unused", released |-> 0]

\* a goroutine outside h.Callback
NoInvocation == [pc |-> "idle", cs |-> NilPointer, ended |-> "none"]

\* NewStringHandler: storage is nil
StringIdle ==
    /\ storage = NilPointer
    /\ heap = [b \in Buffers |-> Unused]
    /\ inv = [t \in Threads |-> NoInvocation]

\* NewPassPersistExtension
Init ==
    /\ root \in Roots
    /\ currentState = "wait"
    /\ mibTree = NilNode
    /\ output = <<>>
    /\ pc = "start"
    /\ retErr = "nil"
    /\ readerPc = "idle"
    /\ nread = 0
    /\ scanErr = FALSE
    /\ errorsClosed = FALSE
    /\ linesClosed = FALSE
    /\ last = NoLast
    /\ WalkIdle
    /\ AgentIdle
    /\ OIDIdle
    /\ StringIdle

\* Serve, up to its loop: update() and go scanInput()
ServeStart ==
    /\ pc = "start"
    /\ \E t \in CallbackTrees : mibTree' = t
    /\ pc' = "select"
    /\ readerPc' = "scan"
    /\ UNCHANGED <<root, currentState, output, retErr, nread,
                   scanErr, errorsClosed, linesClosed, last>>
    /\ UNCHANGED <<walkVars, agentVars, oidVars, stringVars>>

\* scanInput: scanner.Scan() delivers a line, which is then sent on ppe.lines.
\* What the line says is independent of the program and is drawn when the line
\* is received.
ScanLine ==
    /\ readerPc = "scan"
    /\ nread < MaxInput
    /\ nread' = nread + 1
    /\ readerPc' = "send"
    /\ UNCHANGED <<root, currentState, mibTree, output, pc, retErr, scanErr,
                   errorsClosed, linesClosed, last>>
    /\ UNCHANGED <<walkVars, agentVars, oidVars, stringVars>>

\* scanInput: scanner.Scan() returns false, at EOF or on a read error
ScanStop ==
    /\ readerPc = "scan"
    /\ \E e \in BOOLEAN : scanErr' = e
    /\ readerPc' = "closeErrors"
    /\ UNCHANGED <<root, currentState, mibTree, output, pc, retErr, nread,
                   errorsClosed, linesClosed, last>>
    /\ UNCHANGED <<walkVars, agentVars, oidVars, stringVars>>

\* scanInput: scanner.Err() is looked at and dropped; close(ppe.errors)
CloseErrors ==
    /\ readerPc = "closeErrors"
    /\ errorsClosed' = TRUE
    /\ readerPc' = "closeLines"
    /\ UNCHANGED <<root, currentState, mibTree, output, pc, retErr, nread,
                   scanErr, linesClosed, last>>
    /\ UNCHANGED <<walkVars, agentVars, oidVars, stringVars>>

\* scanInput: close(ppe.lines)
CloseLines ==
    /\ readerPc = "closeLines"
    /\ linesClosed' = TRUE
    /\ readerPc' = "done"
    /\ UNCHANGED <<root, currentState, mibTree, output, pc, retErr, nread,
                   scanErr, errorsClosed, last>>
    /\ UNCHANGED <<walkVars, agentVars, oidVars, stringVars>>

\* Serve: the body of `case line = <-ppe.lines`
Handle(line) ==
    \E fresh \in IF CallsUpdate(currentState, line, root)
                 THEN CallbackTrees ELSE {mibTree} :
        LET r == HandleLine(currentState, line, mibTree, root, fresh)
        IN  /\ mibTree' = r.tree
            /\ output' = output \o r.out
            /\ last' = [state |-> currentState, line |-> line,
                        parsed |-> IF currentState = "wait" THEN NoParse
                                   ELSE NewOIDFromString(line),
                        next |-> r.next, err |-> r.err, out |-> r.out,
                        before |-> mibTree, updated |-> r.updated,
                        panic |-> r.panic]
            /\ IF r.panic
               THEN pc' = "panicked" /\ UNCHANGED <<currentState, retErr>>
               ELSE IF r.err # "nil"
               THEN pc' = "returned" /\ retErr' = r.err
                    /\ UNCHANGED currentState
               ELSE IF r.next = "shutdown"
               THEN pc' = "returned" /\ retErr' = "nil"
                    /\ UNCHANGED currentState
               ELSE pc' = "select" /\ currentState' = r.next
                    /\ UNCHANGED retErr

\* Serve: a line sent by scanInput is received and handled
ServeLine ==
    /\ pc = "select"
    /\ readerPc = "send"
    /\ \E line \in InputLines(root) : Handle(line)
    /\ readerPc' = "scan"
    /\ UNCHANGED <<root, nread, scanErr, errorsClosed, linesClosed>>
    /\ UNCHANGED <<walkVars, agentVars, oidVars, stringVars>>

\* Serve: ppe.lines is closed, the receive yields the empty string
ServeClosedLines ==
    /\ pc = "select"
    /\ linesClosed
    /\ Handle(<<>>)
    /\ UNCHANGED <<root, readerPc, nread, scanErr, errorsClosed,
                   linesClosed>>
    /\ UNCHANGED <<walkVars, agentVars, oidVars, stringVars>>

\* Serve: ppe.errors is closed, the receive yields the nil error
ServeErrors ==
    /\ pc = "select"
    /\ errorsClosed
    /\ pc' = "returned"
    /\ retErr' = "nil"
    /\ UNCHANGED <<root, currentState, mibTree, output, readerPc, nread,
                   scanErr, errorsClosed, linesClosed, last>>
    /\ UNCHANGED <<walkVars, agentVars, oidVars, stringVars>>

Next ==
    \/ ServeStart
    \/ ScanLine
    \/ ScanStop
    \/ CloseErrors
    \/ CloseLines
    \/ ServeLine
    \/ ServeClosedLines
    \/ ServeErrors

Spec == Init /\ [][Next]_vars

\* the steps of the goroutine of scanInput, and of the goroutine in Serve
ReaderStep == ScanLine \/ ScanStop \/ CloseErrors \/ CloseLines
ServeStep == ServeStart \/ ServeLine \/ ServeClosedLines \/ ServeErrors

\* Both goroutines are scheduled: a goroutine that can take a step takes one.
\* A send on ppe.lines is a step of both (ServeLine) and needs Serve in its
\* select.
SpecServeFair ==
    /\ Init
    /\ [][Next]_vars
    /\ WF_vars(ReaderStep)
    /\ WF_vars(ServeStep)

(***************************************************************************)
(* The tree walkers called on their own                                    *)
(***************************************************************************)
InitWalk ==
    /\ node \in TreesUpTo(MaxNodes)
    /\ oid \in WalkOIDs
    /\ found = NoCall
    /\ trail = <<>>
    /\ walkEnd = "running"
    /\ EngineIdle
    /\ AgentIdle
    /\ OIDIdle
    /\ StringIdle

\* GetLeaf(node, oid)
CallGetLeaf ==
    /\ found = NoCall
    /\ trail = <<>>
    /\ found' = GetLeaf(node, oid)
    /\ UNCHANGED <<node, oid, trail, walkEnd>>
    /\ UNCHANGED <<engineVars, agentVars, oidVars, stringVars>>

\* oid <- NextLeaf(node, oid): the GETNEXT walk that starts at oid
CallNextLeaf ==
    /\ found = NoCall
    /\ walkEnd = "running"
    /\ Len(trail) < MaxWalk
    /\ LET from == IF trail = <<>> THEN oid ELSE trail[Len(trail)]
           r == NextLeaf(node, from)
           after == StartOID(from).caller
           fed == IF trail = <<>> THEN trail
                  ELSE [trail EXCEPT ![Len(trail)] = after]
       IN  /\ oid' = IF trail = <<>> THEN after ELSE oid
           /\ IF r.st = "ok"
              THEN trail' = Append(fed, r.v) /\ UNCHANGED walkEnd
              ELSE walkEnd' = r.st /\ trail' = fed
    /\ UNCHANGED <<node, found>>
    /\ UNCHANGED <<engineVars, agentVars, oidVars, stringVars>>

NextWalk == CallGetLeaf \/ CallNextLeaf

SpecWalk == InitWalk /\ [][NextWalk]_vars

\* The GETNEXT walk of a manager on its own: every OID returned is fed back
\* (doc.go:305-314 answers each getnext with NextLeaf of the OID received),
\* and the manager goes on asking while it is answered with an OID.
SpecWalkFair == InitWalk /\ [][CallNextLeaf]_vars /\ WF_vars(CallNextLeaf)

(***************************************************************************)
(* AgentX: the registry calls, Run, Stop and the dispatch shim             *)
(***************************************************************************)
\* a panic in a goroutine ends the process
Crashed == \E t \in Threads : thr[t].pc = "panicked"

InitAgent ==
    /\ AgentIdle
    /\ EngineIdle
    /\ WalkIdle
    /\ OIDIdle
    /\ StringIdle

\* the goroutine t goes on to the position at of the call it is in
Goto(t, at) == [thr EXCEPT ![t].pc = at]

RunFrame == UNCHANGED <<initialized, inits, registered, keepRunning, agentRunning>>

\* Add, Remove, RemoveAll: h.Lock()
Lock(t) ==
    /\ thr[t].pc = "idle"
    /\ ~Crashed
    /\ CanLock(mutex)
    /\ \E call \in WriteCalls :
           thr' = [thr EXCEPT ![t] = [pc |-> "write", op |-> call.op,
                                      arg |-> call.arg, res |-> NoResult,
                                      seen |-> {}]]
    /\ mutex' = [mutex EXCEPT !.writer = t]
    /\ UNCHANGED <<handlers, added>>
    /\ RunFrame
    /\ UNCHANGED <<engineVars, walkVars, oidVars, stringVars, phase>>

\* Add, Remove, RemoveAll: the body, the return and the deferred h.Unlock()
Write(t) ==
    /\ thr[t].pc = "write"
    /\ ~Crashed
    /\ handlers' =
           CASE thr[t].op = "Add" -> HandlersAdd(handlers, thr[t].arg)
             [] thr[t].op = "Remove" ->
                    HandlersRemove(handlers, thr[t].arg.name).m
             [] thr[t].op = "RemoveAll" -> HandlersRemoveAll(handlers)
    /\ thr' = [thr EXCEPT
                  ![t].pc = "idle",
                  ![t].seen = added,
                  ![t].res =
                      IF thr[t].op = "Remove"
                      THEN [kind |-> "removed",
                            h |-> HandlersRemove(handlers,
                                                 thr[t].arg.name).handler]
                      ELSE [kind |-> "done"]]
    /\ added' = AddedAfter(added, [op |-> thr[t].op, arg |-> thr[t].arg])
    /\ mutex' = Unlock(mutex, t)
    /\ RunFrame
    /\ phase' = PhaseAfterWrite(phase, thr[t].op)
    /\ UNCHANGED <<engineVars, walkVars, oidVars, stringVars>>

\* Get, All: h.RLock()
RLock(t) ==
    /\ thr[t].pc = "idle"
    /\ ~Crashed
    /\ CanRLock(mutex)
    /\ \E call \in ReadCalls :
           thr' = [thr EXCEPT ![t] = [pc |-> "read", op |-> call.op,
                                      arg |-> call.arg, res |-> NoResult,
                                      seen |-> {}]]
    /\ mutex' = [mutex EXCEPT !.readers = @ \cup {t}]
    /\ UNCHANGED <<handlers, added>>
    /\ RunFrame
    /\ UNCHANGED <<engineVars, walkVars, oidVars, stringVars, phase>>

\* Get, All: the body, the return and the deferred h.RUnlock()
Read(t) ==
    /\ thr[t].pc = "read"
    /\ ~Crashed
    /\ thr' = [thr EXCEPT
                  ![t].pc = "idle",
                  ![t].seen = added,
                  ![t].res =
                      IF thr[t].op = "Get"
                      THEN [kind |-> "get",
                            h |-> HandlersGet(handlers, thr[t].arg.name).h,
                            ok |-> HandlersGet(handlers, thr[t].arg.name).ok]
                      ELSE [kind |-> "all", hs |-> HandlersAll(handlers)]]
    /\ mutex' = RUnlock(mutex, t)
    /\ UNCHANGED <<handlers, added>>
    /\ RunFrame
    /\ UNCHANGED <<engineVars, walkVars, oidVars, stringVars, phase>>

\* a Run that goes on whatever sitemon_agent_running() says
RunCheckSkipped(running) ==
    [pc |-> "checkInit", op |-> "Run", arg |-> NoHandler, res |-> NoResult,
     seen |-> {}]

\* Run: return AlreadyRunning if sitemon_agent_running() != 0, go on if not
RunCheck(running) ==
    IF running
    THEN [pc |-> "idle", op |-> "Run", arg |-> NoHandler,
          res |-> [kind |-> "run", err |-> "AlreadyRunning"], seen |-> {}]
    ELSE [pc |-> "checkInit", op |-> "Run", arg |-> NoHandler,
          res |-> NoResult, seen |-> {}]

\* Run: the check of sitemon_agent_running()
Run(t) ==
    /\ thr[t].pc = "idle"
    /\ ~Crashed
    /\ thr' = [thr EXCEPT ![t] = RunCheck(agentRunning)]
    /\ UNCHANGED <<handlers, mutex, added>>
    /\ RunFrame
    /\ UNCHANGED <<engineVars, walkVars, oidVars, stringVars, phase>>

\* Run: if !initialized
CheckInitialized(t) ==
    /\ thr[t].pc = "checkInit"
    /\ ~Crashed
    /\ thr' = Goto(t, IF initialized THEN "all" ELSE "init")
    /\ UNCHANGED <<handlers, mutex, added>>
    /\ RunFrame
    /\ UNCHANGED <<engineVars, walkVars, oidVars, stringVars, phase>>

\* Run: init_agent() and initialized = true
init_agent(t) ==
    /\ thr[t].pc = "init"
    /\ ~Crashed
    /\ inits' = inits + 1
    /\ initialized' = TRUE
    /\ thr' = Goto(t, "all")
    /\ UNCHANGED <<handlers, mutex, added, registered, keepRunning,
                   agentRunning>>
    /\ UNCHANGED <<engineVars, walkVars, oidVars, stringVars, phase>>

\* Run: Handlers.All(), h.RLock()
RunAllRLock(t) ==
    /\ thr[t].pc = "all"
    /\ ~Crashed
    /\ CanRLock(mutex)
    /\ mutex' = [mutex EXCEPT !.readers = @ \cup {t}]
    /\ thr' = Goto(t, "allRead")
    /\ UNCHANGED <<handlers, added>>
    /\ RunFrame
    /\ UNCHANGED <<engineVars, walkVars, oidVars, stringVars, phase>>

\* Run: Handlers.All(), the body, the return and the deferred h.RUnlock()
RunAllRead(t) ==
    /\ thr[t].pc = "allRead"
    /\ ~Crashed
    /\ thr' = [thr EXCEPT
                  ![t].pc = "register",
                  ![t].seen = added,
                  ![t].res = [kind |-> "all", hs |-> HandlersAll(handlers)]]
    /\ mutex' = RUnlock(mutex, t)
    /\ UNCHANGED <<handlers, added>>
    /\ RunFrame
    /\ UNCHANGED <<engineVars, walkVars, oidVars, stringVars, phase>>

\* Run: handler.Register() for every handler that All() returned, in the
\* order of the slice, which is the order the map was ranged over:
\* registerScalar takes &oid.C_ulong()[0], an index out of range when the
\* OID of the handler is empty. names is the set of possible outcomes: the
\* names registered when the loop ended or panicked.
RegisterScalar(hs) ==
    LET bad == {h \in hs : Len(h.oid) = 0}
        good == {h.name : h \in hs \ bad}
    IN  IF bad = {}
        THEN [names |-> {good}, panic |-> FALSE]
        ELSE [names |-> SUBSET good, panic |-> TRUE]

Register(t) ==
    /\ thr[t].pc = "register"
    /\ ~Crashed
    /\ \E done \in RegisterScalar(thr[t].res.hs).names :
           registered' = registered \cup done
    /\ thr' = Goto(t, IF RegisterScalar(thr[t].res.hs).panic
                      THEN "panicked" ELSE "enter")
    /\ UNCHANGED <<handlers, mutex, added, initialized, inits, keepRunning,
                   agentRunning>>
    /\ UNCHANGED <<engineVars, walkVars, oidVars, stringVars, phase>>

\* sitemon_run_agent: keep_running = 1; agent_running = 1
sitemon_run_agent(t) ==
    /\ thr[t].pc = "enter"
    /\ ~Crashed
    /\ keepRunning' = TRUE
    /\ agentRunning' = TRUE
    /\ thr' = [thr EXCEPT ![t].pc = "loop", ![t].res = NoResult,
                          ![t].seen = {}]
    /\ UNCHANGED <<handlers, mutex, added, initialized, inits, registered>>
    /\ phase' = "running"
    /\ UNCHANGED <<engineVars, walkVars, oidVars, stringVars>>

\* sitemon_run_agent: while(keep_running) is left, agent_running = 0, and
\* Run returns nil
RunReturn(t) ==
    /\ thr[t].pc = "loop"
    /\ ~Crashed
    /\ ~keepRunning
    /\ agentRunning' = FALSE
    /\ thr' = [thr EXCEPT ![t].pc = "idle",
                          ![t].res = [kind |-> "run", err |-> "nil"],
                          ![t].seen = {}]
    /\ UNCHANGED <<handlers, mutex, added, initialized, inits, registered,
                   keepRunning>>
    /\ UNCHANGED <<engineVars, walkVars, oidVars, stringVars, phase>>

\* agent_check_and_process hands a request for a registered name to
\* sitemon_req_handler: MODE_GET goes to golangReentrantHandler, any other
\* mode is answered SNMP_ERR_GENERR
sitemon_req_handler(t) ==
    /\ thr[t].pc = "loop"
    /\ ~Crashed
    /\ keepRunning
    /\ \E name \in registered, mode \in Modes :
           thr' = [thr EXCEPT ![t] =
                     IF mode = "MODE_GET"
                     THEN [pc |-> "shim", op |-> "Run",
                           arg |-> NameArg(name), res |-> NoResult,
                           seen |-> {}]
                     ELSE [pc |-> "loop", op |-> "Run",
                           arg |-> NameArg(name),
                           res |-> Dispatch(mode, name, FALSE, FALSE,
                                            FALSE, NoHandler,
                                            "SNMP_ERR_GENERR", NoResponse),
                           seen |-> {}]]
    /\ UNCHANGED <<handlers, mutex, added>>
    /\ RunFrame
    /\ UNCHANGED <<engineVars, walkVars, oidVars, stringVars, phase>>

\* golangReentrantHandler: Handlers.Get(name), h.RLock()
ShimRLock(t) ==
    /\ thr[t].pc = "shim"
    /\ ~Crashed
    /\ CanRLock(mutex)
    /\ mutex' = [mutex EXCEPT !.readers = @ \cup {t}]
    /\ thr' = Goto(t, "shimGet")
    /\ UNCHANGED <<handlers, added>>
    /\ RunFrame
    /\ UNCHANGED <<engineVars, walkVars, oidVars, stringVars, phase>>

\* golangReentrantHandler: Handlers.Get(name) returns with the deferred
\* h.RUnlock(); a missing handler ends the request
ShimGet(t) ==
    /\ thr[t].pc = "shimGet"
    /\ ~Crashed
    /\ LET g == HandlersGet(handlers, thr[t].arg.name)
       IN  thr' = [thr EXCEPT ![t] =
                     IF g.ok
                     THEN [pc |-> "callback", op |-> "Run", arg |-> g.h,
                           res |-> NoResult, seen |-> added]
                     ELSE [pc |-> "loop", op |-> "Run", arg |-> thr[t].arg,
                           res |-> ShimMissing(thr[t].arg.name),
                           seen |-> added]]
    /\ mutex' = RUnlock(mutex, t)
    /\ UNCHANGED <<handlers, added>>
    /\ RunFrame
    /\ phase' = IF phase = "removed"
                    /\ ~HandlersGet(handlers, thr[t].arg.name).ok
                 THEN "missed" ELSE phase
    /\ UNCHANGED <<engineVars, walkVars, oidVars, stringVars>>

\* golangReentrantHandler: h.Callback(oid, requests), whose user function
\* returns a value or an error
Callback(t) ==
    /\ thr[t].pc = "callback"
    /\ ~Crashed
    /\ \E failed \in BOOLEAN :
           thr' = [thr EXCEPT ![t].pc = "loop",
                              ![t].res = ShimCalled(thr[t].arg, failed)]
    /\ UNCHANGED <<handlers, mutex, added>>
    /\ RunFrame
    /\ phase' = IF phase = "readded" /\ ~(thr'[t].res.failed)
                 THEN "served" ELSE phase
    /\ UNCHANGED <<engineVars, walkVars, oidVars, stringVars>>

\* the goroutines inside Run (Stop notes them in what it returns)
InRun == {u \in Threads : thr[u].op = "Run" /\ thr[u].pc # "idle"}

\* Stop: sitemon_stop_agent sets keep_running = 0
Stop(t) ==
    /\ thr[t].pc = "idle"
    /\ ~Crashed
    /\ keepRunning' = FALSE
    /\ thr' = [thr EXCEPT ![t] = [pc |-> "idle", op |-> "Stop",
                                  arg |-> NoHandler,
                                  res |-> [kind |-> "stopped",
                                           during |-> InRun],
                                  seen |-> {}]]
    /\ UNCHANGED <<handlers, mutex, added, initialized, inits, registered,
                   agentRunning>>
    /\ UNCHANGED <<engineVars, walkVars, oidVars, stringVars, phase>>

\* Running: sitemon_agent_running() > 0
Running == agentRunning

NextAgent ==
    \E t \in Threads :
        \/ Lock(t)
        \/ Write(t)
        \/ RLock(t)
        \/ Read(t)
        \/ Run(t)
        \/ CheckInitialized(t)
        \/ init_agent(t)
        \/ RunAllRLock(t)
        \/ RunAllRead(t)
        \/ Register(t)
        \/ sitemon_run_agent(t)
        \/ RunReturn(t)
        \/ sitemon_req_handler(t)
        \/ ShimRLock(t)
        \/ ShimGet(t)
        \/ Callback(t)
        \/ Stop(t)

SpecAgent == InitAgent /\ [][NextAgent]_vars

\* Run and Stop alone; every goroutine that is inside Run goes on (the Go
\* scheduler runs every runnable goroutine, each poll of the adapter returns)
RunStep(t) ==
    \/ CheckInitialized(t)
    \/ init_agent(t)
    \/ RunAllRLock(t)
    \/ RunAllRead(t)
    \/ Register(t)
    \/ sitemon_run_agent(t)
    \/ RunReturn(t)

NextRunStop ==
    \E t \in Threads :
        \/ Run(t)
        \/ Stop(t)
        \/ RunStep(t)

SpecRunStop ==
    /\ InitAgent
    /\ [][NextRunStop]_vars
    /\ \A t \in Threads : WF_vars(RunStep(t))

(***************************************************************************)
(* The OID operations, called on every pair of OIDs                        *)
(***************************************************************************)
\* the components: small ones, and the largest uint32
OIDComponents == {0, 1, 2, U32 - 1}

OIDArgs == SeqsUpTo(OIDComponents, MaxOidArg)

InitOID ==
    /\ oidR \in OIDArgs
    /\ oidS \in OIDArgs
    /\ oidCall = NoOIDCall
    /\ EngineIdle
    /\ WalkIdle
    /\ AgentIdle
    /\ StringIdle

OIDFrame ==
    UNCHANGED <<oidR, oidS, engineVars, walkVars, agentVars, stringVars>>

\* oidR.String()
CallString ==
    /\ oidCall.op # "String"
    /\ oidCall' = [op |-> "String", str |-> OIDString(oidR), err |-> "nil",
                   o |-> NilOID]
    /\ OIDFrame

\* NewOIDFromString on the string that String() returned
CallParse ==
    /\ oidCall.op = "String"
    /\ LET r == NewOIDFromString(oidCall.str)
       IN  oidCall' = [op |-> "Parse", str |-> oidCall.str, err |-> r.err,
                       o |-> OIDVal(r.o)]
    /\ OIDFrame

\* the strings handed to NewOIDFromString directly: well-formed ones, and
\* ones with a component that is not an unsigned decimal number of 32 bits
ParseInputs ==
    {<<>>,
     <<".">>,
     <<".", "1">>,
     <<".", "1", ".", "2">>,
     <<".", "0", "1">>,
     <<".", "x">>,
     <<".", "1", ".", ".", "2">>,
     <<".", "1", ".">>,
     <<".", " ", "1">>,
     <<".", "1", " ">>,
     <<".", "+", "1">>,
     <<".", "-", "1">>,
     <<".">> \o FormatDecimal(U32 - 1),
     <<".">> \o FormatDecimal(U32),
     <<".">> \o FormatDecimal(U32 + 1),
     <<".">> \o FormatDecimal(MaxInt + 1)}

\* NewOIDFromString(str) on a string of the caller
CallParseString ==
    /\ \E str \in ParseInputs :
           LET r == NewOIDFromString(str)
           IN  oidCall' = [op |-> "ParseString", str |-> str, err |-> r.err,
                           o |-> OIDVal(r.o)]
    /\ OIDFrame

\* oidR.Add(oidS)
CallAdd ==
    /\ oidCall.op # "Add"
    /\ oidCall' = [op |-> "Add", str |-> <<>>, err |-> "nil",
                   o |-> OIDVal(Add(oidR, oidS))]
    /\ OIDFrame

\* GetRemainder(oidR) on the OID that Add returned
CallRemainderOfSum ==
    /\ oidCall.op = "Add"
    /\ LET r == GetRemainder(oidCall.o.v, oidR)
       IN  oidCall' = [op |-> "RemainderOfSum", str |-> <<>>, err |-> r.err,
                       o |-> r.partial]
    /\ OIDFrame

\* oidR.GetRemainder(oidS)
CallGetRemainder ==
    /\ oidCall.op # "GetRemainder"
    /\ LET r == GetRemainder(oidR, oidS)
       IN  oidCall' = [op |-> "GetRemainder", str |-> <<>>, err |-> r.err,
                       o |-> r.partial]
    /\ OIDFrame

NextOID ==
    \/ CallString
    \/ CallParse
    \/ CallParseString
    \/ CallAdd
    \/ CallRemainderOfSum
    \/ CallGetRemainder

SpecOID == InitOID /\ [][NextOID]_vars

(***************************************************************************)
(* StringHandler.Callback, invoked by the goroutines inside the run loop   *)
(***************************************************************************)
InitString ==
    /\ StringIdle
    /\ EngineIdle
    /\ WalkIdle
    /\ AgentIdle
    /\ OIDIdle

StringFrame == UNCHANGED <<engineVars, walkVars, agentVars, oidVars>>

\* the buffers never allocated, and the goroutines that will allocate one
UnusedBuffers == {b \in Buffers : heap[b].state = "unused"}
AboutToAllocate == {t \in Threads : inv[t].pc \in {"free", "alloc"}}

\* a buffer was passed to C.free twice: the heap is corrupt from then on
Corrupt == \E b \in Buffers : heap[b].released > 1

\* C.free(p)
Free(hp, p) ==
    [hp EXCEPT ![p] = [state |-> "released", released |-> @.released + 1]]

\* Callback: v, err := h.cb(oid, requests); an error is returned at once
CallUserFunction(t) ==
    /\ inv[t].pc = "idle"
    /\ ~Corrupt
    /\ Cardinality(UnusedBuffers) > Cardinality(AboutToAllocate)
    /\ \E failed \in BOOLEAN :
           inv' = [inv EXCEPT ![t] =
                     IF failed
                     THEN [pc |-> "idle", cs |-> NilPointer,
                           ended |-> "error"]
                     ELSE [pc |-> "free", cs |-> NilPointer,
                           ended |-> "none"]]
    /\ UNCHANGED <<storage, heap>>
    /\ StringFrame

\* Callback: if h.storage != nil { C.free(h.storage) }
FreeOld(t) ==
    /\ inv[t].pc = "free"
    /\ ~Corrupt
    /\ heap' = IF storage # NilPointer THEN Free(heap, storage) ELSE heap
    /\ inv' = [inv EXCEPT ![t].pc = "alloc"]
    /\ UNCHANGED storage
    /\ StringFrame

\* Callback: cs := C.CString(v), a buffer that is not in use
Allocate(t) ==
    /\ inv[t].pc = "alloc"
    /\ ~Corrupt
    /\ \E b \in UnusedBuffers :
           /\ \A c \in UnusedBuffers : b <= c
           /\ heap' = [heap EXCEPT ![b].state = "live"]
           /\ inv' = [inv EXCEPT ![t].pc = "set", ![t].cs = b]
    /\ UNCHANGED storage
    /\ StringFrame

\* Callback: C.snmp_set_var_typed_value(requests.requestvb, AsnOctetString,
\* cs, C.strlen(cs)) reads the buffer and returns
SetTypedValue(t) ==
    /\ inv[t].pc = "set"
    /\ ~Corrupt
    /\ inv' = [inv EXCEPT ![t].pc = "store"]
    /\ UNCHANGED <<storage, heap>>
    /\ StringFrame

\* Callback: h.storage = unsafe.Pointer(cs); return nil
Store(t) ==
    /\ inv[t].pc = "store"
    /\ ~Corrupt
    /\ storage' = inv[t].cs
    /\ inv' = [inv EXCEPT ![t] = [pc |-> "idle", cs |-> NilPointer,
                                  ended |-> "ok"]]
    /\ UNCHANGED heap
    /\ StringFrame

NextString ==
    \E t \in Threads :
        \/ CallUserFunction(t)
        \/ FreeOld(t)
        \/ Allocate(t)
        \/ SetTypedValue(t)
        \/ Store(t)

SpecString == InitString /\ [][NextString]_vars

(***************************************************************************)
(* The notions the properties are stated in, defined on the tree and the   *)
(* OID themselves and not through the walkers.                             *)
(***************************************************************************)
\* p is the 1-based child-index path of a node of the tree t
RECURSIVE IsPath(_, _)
IsPath(t, p) ==
    \/ p = <<>>
    \/ /\ t.kind = "subtree"
       /\ p[1] \in 1..Len(t.leaves)
       /\ IsPath(t.leaves[p[1]], Tail(p))

\* the node of t at the path p
RECURSIVE NodeAt(_, _)
NodeAt(t, p) == IF p = <<>> THEN t ELSE NodeAt(t.leaves[p[1]], Tail(p))

\* the paths of the leaves of t, in pre-order
RECURSIVE LeafPaths(_)
LeafPaths(t) ==
    IF t.kind = "leaf" THEN <<<<>>>>
    ELSE LET RECURSIVE upTo(_)
             upTo(i) ==
                 IF i = 0 THEN <<>>
                 ELSE LET below == LeafPaths(t.leaves[i])
                      IN  upTo(i - 1)
                            \o [k \in 1..Len(below) |-> <<i>> \o below[k]]
         IN  upTo(Len(t.leaves))

\* at some level where the node reached is a subtree, the component of p
\* selected there is 0 or exceeds the number of children
RECURSIVE OutOfRange(_, _)
OutOfRange(t, p) ==
    /\ p # <<>>
    /\ t.kind = "subtree"
    /\ \/ p[1] < 1
       \/ p[1] > Len(t.leaves)
       \/ OutOfRange(t.leaves[p[1]], Tail(p))

IsPrefix(r, o) == Len(r) <= Len(o) /\ \A i \in 1..Len(r) : r[i] = o[i]

IsPrefixSeq(s, t) == Len(s) <= Len(t) /\ \A i \in 1..Len(s) : s[i] = t[i]

\* the canonical dotted form of an OID
RECURSIVE Dotted(_)
Dotted(o) ==
    IF o = <<>> THEN <<>>
    ELSE <<".">> \o FormatDecimal(o[1]) \o Dotted(Tail(o))

\* the request the last call of handleLine was given, when it was given one
IsRequest == last.state \in {"get", "getNext"}
Requested == last.parsed
RequestParses == Requested.err = "nil"
UnderRoot == RequestParses /\ IsPrefix(root, Requested.o)
Relative == SubSeq(Requested.o, Len(root) + 1, Len(Requested.o))

\* the last call of handleLine was given the root itself as its request
RootRequest == IsRequest /\ RequestParses /\ Requested.o = root

\* the two cases of the letters of the commands
LetterCases ==
    {<<"e", "E">>, <<"g", "G">>, <<"i", "I">>, <<"n", "N">>, <<"p", "P">>,
     <<"t", "T">>, <<"x", "X">>}

\* line is the lower-case word in some letter case
IsWord(line, word) ==
    /\ Len(line) = Len(word)
    /\ \A i \in 1..Len(word) :
           line[i] = word[i] \/ <<word[i], line[i]>> \in LetterCases

\* p without its last component
Front(p) == SubSeq(p, 1, Len(p) - 1)

\* p is the path of a leaf of t that is the last child of its parent
LastOfGroup(t, p) ==
    /\ p # <<>>
    /\ IsPath(t, p)
    /\ NodeAt(t, p).kind = "leaf"
    /\ p[Len(p)] = Len(NodeAt(t, Front(p)).leaves)

\* the path of the next sibling of the nearest ancestor of the node at p that
\* has one; <<>> when no ancestor has a later sibling
RECURSIVE LaterSibling(_, _)
LaterSibling(t, p) ==
    LET q == Front(p)
    IN  IF q = <<>> THEN <<>>
        ELSE IF q[Len(q)] < Len(NodeAt(t, Front(q)).leaves)
        THEN [q EXCEPT ![Len(q)] = @ + 1]
        ELSE LaterSibling(t, q)

\* the first NextLeaf call of the walk has returned, and what it returned
FirstCallDone == trail # <<>> \/ walkEnd \in {"nil", "panic"}
FirstResult == IF trail # <<>> THEN "ok" ELSE walkEnd

(***************************************************************************)
(* Properties                                                              *)
(***************************************************************************)

\* C1: every GET or GETNEXT request whose line parses to an OID under the root
\* is answered by exactly one reply, written before the next line is handled:
\* three lines, or the single line None; a GETNEXT for which NextLeaf yields no
\* OID is answered None.
C1_EveryRequestAnswered ==
    (IsRequest /\ UnderRoot) =>
        /\ ~last.panic
        /\ last.err = "nil"
        /\ last.out = <<None>> \/ Len(last.out) = 3
        /\ (last.state = "getNext" /\ NextLeaf(mibTree, Relative).st = "nil")
               => last.out = <<None>>

\* C2: starting from the empty OID, oid <- NextLeaf(root, oid) yields the path
\* of every leaf of the tree, once each, in pre-order, and then the absent
\* result.
C2_WalkVisitsEveryLeaf ==
    (node.kind = "subtree" /\ oid = <<>> /\ found = NoCall) =>
        /\ walkEnd # "panic"
        /\ IsPrefixSeq(trail, LeafPaths(node))
        /\ walkEnd = "nil" => trail = LeafPaths(node)

\* C3: NextLeaf called with the path of the last leaf of the tree returns the
\* absent result.
C3_LastLeafYieldsAbsent ==
    (/\ node.kind = "subtree"
     /\ LeafPaths(node) # <<>>
     /\ oid = LeafPaths(node)[Len(LeafPaths(node))]
     /\ found = NoCall
     /\ FirstCallDone) => FirstResult = "nil"

\* C4: for any tree and any OID, GetLeaf ends without a run-time failure and
\* returns absent or a node whose Value() is a leaf value.
C4_GetLeafTotal ==
    found # NoCall => (found = NilNode \/ found.kind = "leaf")

\* C5: a GET of root followed by the path of a leaf of the held tree writes
\* exactly three lines: the requested OID in dotted form, the lower-case name of
\* the leaf's type, and the leaf's value.
C5_GetWritesLeaf ==
    (/\ last.state = "get"
     /\ UnderRoot
     /\ Relative # <<>>
     /\ IsPath(mibTree, Relative)
     /\ NodeAt(mibTree, Relative).kind = "leaf") =>
        /\ ~last.panic
        /\ last.err = "nil"
        /\ last.out = <<Dotted(Add(root, Relative)),
                        PrettyString(NodeAt(mibTree, Relative).leaf.asnType),
                        FormatDecimal(NodeAt(mibTree, Relative).leaf.value)>>

C5_Witness ==
    /\ last.state = "get"
    /\ UnderRoot
    /\ Len(Relative) = 2
    /\ IsPath(mibTree, Relative)
    /\ NodeAt(mibTree, Relative).kind = "leaf"
    /\ Len(last.out) = 3
    /\ pc = "select"

\* C6: when NextLeaf returns relNext for a GETNEXT, the reply OID is the root
\* followed by relNext, and the type and value written are those of the node
\* GetLeaf(tree, relNext).
C6_GetNextWritesNextLeaf ==
    (/\ last.state = "getNext"
     /\ UnderRoot
     /\ NextLeaf(mibTree, Relative).st = "ok") =>
        LET relNext == NextLeaf(mibTree, Relative).v
            n == GetLeaf(mibTree, relNext)
        IN  /\ ~last.panic
            /\ n.kind = "leaf"
            /\ last.out = <<Dotted(Add(root, relNext)),
                            PrettyString(n.leaf.asnType),
                            FormatDecimal(n.leaf.value)>>

\* C7: for a non-empty OID that is the child-index path of a node of the tree,
\* GetLeaf returns exactly that node.
C7_GetLeafReturnsNode ==
    (found # NoCall /\ oid # <<>> /\ IsPath(node, oid)) =>
        found = NodeAt(node, oid)

C7_Witness ==
    /\ found # NoCall
    /\ oid = <<1, 3>>
    /\ IsPath(node, oid)
    /\ found.kind = "leaf"
    /\ found.leaf.value = 43

\* C8: GetLeaf returns absent whenever, at a level where the node reached is a
\* subtree, the selected component is 0 or exceeds the number of children.
C8_OutOfRangeIsAbsent ==
    (found # NoCall /\ OutOfRange(node, oid)) => found = NilNode

\* C9 as stated: the engine starts in WAIT; from WAIT get moves it to GET,
\* getnext to GETNEXT, any other non-blank line leaves it in WAIT with no
\* output; from GET or GETNEXT the line is consumed as an OID and never as a
\* command, and handled without error it leaves the engine in WAIT; the stored
\* state is always WAIT, GET or GETNEXT, and GET or GETNEXT last one line.
C9_StateMachineAsStated ==
    /\ currentState \in {"wait", "get", "getNext"}
    /\ pc = "start" => currentState = "wait"
    /\ (last.state = "wait" /\ ToLower(last.line) = <<"g", "e", "t">>) => last.next = "get"
    /\ (last.state = "wait" /\ ToLower(last.line) = <<"g", "e", "t", "n", "e", "x", "t">>)
           => last.next = "getNext"
    /\ (/\ last.state = "wait"
        /\ last.line # <<>>
        /\ ToLower(last.line) \notin {<<"g", "e", "t">>, <<"g", "e", "t", "n", "e", "x", "t">>})
           => (last.next = "wait" /\ last.out = <<>>)
    /\ IsRequest =>
           /\ last.next \in {"wait", "error"}
           /\ last.out # <<PONG>>
           /\ (last.err = "nil" /\ ~last.panic) => last.next = "wait"
           /\ pc = "select" => currentState = "wait"

\* C9, amended: as stated, except that ping (in any letter case) is answered
\* PONG; every other non-blank line that is not get or getnext leaves the
\* engine in WAIT with no output.
C9_StateMachine ==
    /\ currentState \in {"wait", "get", "getNext"}
    /\ pc = "start" => currentState = "wait"
    /\ (last.state = "wait" /\ ToLower(last.line) = <<"g", "e", "t">>) => last.next = "get"
    /\ (last.state = "wait" /\ ToLower(last.line) = <<"g", "e", "t", "n", "e", "x", "t">>)
           => last.next = "getNext"
    /\ (last.state = "wait" /\ ToLower(last.line) = <<"p", "i", "n", "g">>)
           => (last.next = "wait" /\ last.out = <<PONG>>)
    /\ (/\ last.state = "wait"
        /\ last.line # <<>>
        /\ ToLower(last.line) \notin {<<"g", "e", "t">>, <<"g", "e", "t", "n", "e", "x", "t">>, <<"p", "i", "n", "g">>})
           => (last.next = "wait" /\ last.out = <<>>)
    /\ IsRequest =>
           /\ last.next \in {"wait", "error"}
           /\ last.out # <<PONG>>
           /\ (last.err = "nil" /\ ~last.panic) => last.next = "wait"
           /\ pc = "select" => currentState = "wait"

C9_Witness ==
    /\ Len(output) >= 2
    /\ output[1] = PONG
    /\ last.state = "get"
    /\ last.next = "wait"
    /\ last.err = "nil"
    /\ ~last.panic
    /\ currentState = "wait"
    /\ pc = "select"

\* C10: in GET or GETNEXT, a line that does not parse as an OID, or whose OID
\* does not have the root as a prefix, makes Serve return a non-nil error
\* (BadOID or OIDNotMatch) and nothing is written for the request.
C10_BadRequestEndsServe ==
    (IsRequest /\ ~UnderRoot) =>
        /\ pc = "returned"
        /\ retErr \in {"BadOID", "OIDNotMatch"}
        /\ last.out = <<>>

\* C11: when the request line equals the root, the callback is invoked and its
\* result is the tree the walkers read: the reply (or the failure) of every
\* request is the one the walkers give on the tree held after the call, which
\* is the tree the most recent callback invocation returned.
C11_RefreshBeforeWalk ==
    (IsRequest /\ RequestParses /\ GetRemainder(Requested.o, root).err = "nil") =>
        LET onHeld == Resolve(last.state, Requested.o, mibTree, last.updated,
                              GetRemainder(Requested.o, root), root)
        IN  /\ RootRequest => last.updated
            /\ last.out = onHeld.out
            /\ last.panic = onHeld.panic

C11_Witness ==
    /\ last.state = "getNext"
    /\ RootRequest
    /\ last.updated
    /\ NextLeaf(last.before, <<>>).st = "nil"
    /\ Len(last.out) = 3
    /\ pc = "select"

\* C12 as stated: the callback is invoked, and the held tree replaced, only by
\* the handling of a request line that equals the root.
C12_RefreshOnlyOnRootAsStated ==
    [][(mibTree' # mibTree \/ (last' # last /\ last'.updated))
          => (last' # last /\ RootRequest')]_vars

\* C12, amended: apart from the first load of the tree when Serve starts, the
\* callback is invoked, and the held tree replaced, only by the handling of a
\* request line that equals the root; no other step changes the tree.
C12_RefreshOnlyOnRoot ==
    [][pc # "start" =>
          ((mibTree' # mibTree \/ (last' # last /\ last'.updated))
              => (last' # last /\ RootRequest'))]_vars

C12_Witness ==
    /\ last.state = "get"
    /\ UnderRoot
    /\ ~RootRequest
    /\ ~last.updated
    /\ mibTree = last.before
    /\ Len(last.out) = 3
    /\ pc = "select"

\* C13: in WAIT a line that is ping in any letter case is answered by exactly
\* the line PONG and leaves the engine in WAIT; get and getnext in any letter
\* case move it to GET and GETNEXT.
C13_CommandsAnyCase ==
    last.state = "wait" =>
        /\ IsWord(last.line, <<"p", "i", "n", "g">>) =>
               /\ last.out = <<PONG>>
               /\ last.next = "wait" /\ last.err = "nil" /\ ~last.panic
               /\ pc = "select" => currentState = "wait"
        /\ IsWord(last.line, <<"g", "e", "t">>) =>
               /\ last.out = <<>>
               /\ last.next = "get" /\ last.err = "nil" /\ ~last.panic
               /\ pc = "select" => currentState = "get"
        /\ IsWord(last.line, <<"g", "e", "t", "n", "e", "x", "t">>) =>
               /\ last.out = <<>>
               /\ last.next = "getNext" /\ last.err = "nil" /\ ~last.panic
               /\ pc = "select" => currentState = "getNext"

C13_Witness ==
    /\ last.state = "wait"
    /\ last.line = <<"P", "i", "N", "G">>
    /\ output = <<PONG, PONG>>
    /\ currentState = "wait"

\* C14: a blank line handled in WAIT makes Serve return nil with nothing
\* written, and once Serve has returned no line is handled and nothing is
\* written any more.
C14_BlankLineEndsSession ==
    /\ []((last.state = "wait" /\ last.line = <<>>) =>
             (pc = "returned" /\ retErr = "nil" /\ last.out = <<>>))
    /\ [][pc = "returned" =>
             UNCHANGED <<pc, retErr, last, output, currentState, mibTree>>]_vars

C14_Witness ==
    /\ last.state = "wait"
    /\ last.line = <<>>
    /\ pc = "returned"
    /\ ~errorsClosed
    /\ readerPc = "send"
    /\ output = <<PONG>>

\* C15: once the input has reached EOF (scanInput has left its loop without a
\* read error and closed a channel), Serve returns no error, whichever closed
\* channel its select receives from and whatever state the engine is in.
C15_EOFReturnsNoError ==
    [][(pc = "select" /\ errorsClosed /\ ~scanErr /\ pc' # "select")
          => (pc' = "returned" /\ retErr' = "nil")]_vars

\* C16: from the last leaf of a sibling group, NextLeaf returns the path of the
\* first leaf, in pre-order, under the next sibling of the nearest ancestor that
\* has a later sibling.
C16_ClimbToLaterSibling ==
    (/\ found = NoCall
     /\ node.kind = "subtree"
     /\ LastOfGroup(node, oid)
     /\ LaterSibling(node, oid) # <<>>
     /\ LeafPaths(NodeAt(node, LaterSibling(node, oid))) # <<>>
     /\ FirstCallDone) =>
        /\ FirstResult = "ok"
        /\ trail[1] = LaterSibling(node, oid)
                         \o LeafPaths(NodeAt(node, LaterSibling(node, oid)))[1]

\* C17: on a tree that has a leaf, NextLeaf from the empty OID and from [0]
\* returns the path of the first leaf of the tree in pre-order.
C17_StartYieldsFirstLeaf ==
    (/\ found = NoCall
     /\ node.kind = "subtree"
     /\ LeafPaths(node) # <<>>
     /\ oid \in {<<>>, <<0>>}
     /\ FirstCallDone) =>
        (FirstResult = "ok" /\ trail[1] = LeafPaths(node)[1])


\* the handler of the set under the name, NoHandler when there is none
Under(set, name) ==
    IF \E x \in set : x.name = name
    THEN CHOOSE x \in set : x.name = name
    ELSE NoHandler

\* a set of handlers holds one handler per name
OnePerName(set) == \A x, y \in set : x.name = y.name => x = y

\* C18: after any sequence of Add, Remove and RemoveAll the registry holds
\* exactly the handlers added and not removed since, one per name and the
\* most recently added one under each name; Get(name) reports present
\* exactly for these names and returns that handler, All() returns exactly
\* these handlers, and Remove(name) returns the handler it removed or nothing
\* and leaves the other entries as they were.
C18_RegistryIsAddedNotRemoved ==
    /\ HandlersAll(handlers) = added
    /\ OnePerName(added)
    /\ \A t \in Threads :
          LET r == thr[t].res
              name == thr[t].arg.name
          IN  /\ (thr[t].op = "Get" /\ thr[t].pc = "idle") =>
                    /\ r.ok <=> (\E x \in thr[t].seen : x.name = name)
                    /\ r.h = Under(thr[t].seen, name)
              /\ (thr[t].op = "All" /\ thr[t].pc = "idle") =>
                    /\ r.hs = thr[t].seen
                    /\ OnePerName(r.hs)
              /\ (thr[t].op = "Remove" /\ thr[t].pc = "idle") =>
                    r.h = Under(thr[t].seen, name)

\* Get returns the string handler that replaced the int handler under "a",
\* after another goroutine removed the handler "b"
C18_Witness ==
    /\ thr["t1"].op = "Get" /\ thr["t1"].pc = "idle"
    /\ thr["t1"].res.ok /\ thr["t1"].res.h.kind = "string"
    /\ thr["t2"].op = "Remove" /\ thr["t2"].pc = "idle"
    /\ thr["t2"].res.h.name = "b"
    /\ added = {thr["t1"].res.h}

\* the goroutine t is inside golangReentrantHandler
InShim(t) == thr[t].pc \in {"shim", "shimGet", "callback"}

\* the goroutine t has an answer of golangReentrantHandler
ShimAnswered(t) ==
    /\ thr[t].pc = "loop"
    /\ thr[t].res.kind = "dispatch"
    /\ thr[t].res.mode = "MODE_GET"

\* the type of response a handler of the kind sets
ResponseTypeOf(kind) ==
    CASE kind = "int" -> AsnInteger
      [] kind = "bool" -> AsnInteger
      [] kind = "string" -> AsnOctetString

\* C19: the dispatch shim answers OK with a typed response when the handler
\* is found and its callback succeeds, OK with no response and no callback
\* when no handler is registered under the name, and GENERR with no response
\* when the callback returns an error; no step of the shim stops the run
\* loop of the agent.
C19_ShimOutcomes ==
    /\ [](\A t \in Threads :
            ShimAnswered(t) =>
                LET r == thr[t].res
                IN  /\ (r.found /\ ~r.failed) =>
                          /\ r.called
                          /\ r.status = "SNMP_ERR_NOERROR"
                          /\ r.response.set
                          /\ r.response.type = ResponseTypeOf(r.h.kind)
                    /\ ~r.found =>
                          /\ ~r.called
                          /\ r.status = "SNMP_ERR_NOERROR"
                          /\ ~r.response.set
                    /\ (r.found /\ r.failed) =>
                          /\ r.status = "SNMP_ERR_GENERR"
                          /\ ~r.response.set
                    /\ r.found <=> (\E x \in thr[t].seen : x.name = r.name))
    /\ [][\A t \in Threads :
            (InShim(t) /\ thr'[t] # thr[t]) =>
                /\ keepRunning' = keepRunning
                /\ agentRunning' = agentRunning
                /\ InShim(t)' \/ thr'[t].pc = "loop"]_vars

\* the shim has answered a request whose callback failed, and the agent is
\* still in its run loop
C19_Witness ==
    /\ ShimAnswered("t1")
    /\ thr["t1"].res.found /\ thr["t1"].res.failed
    /\ thr["t1"].res.status = "SNMP_ERR_GENERR"
    /\ keepRunning /\ agentRunning

\* C20: while the agent runs, a dispatch for a name invokes the callback of
\* the handler under that name if and only if the name is in the registry at
\* the moment of the lookup: with the registry emptied by RemoveAll no
\* callback value is answered, and once the handler is added again its
\* callback is invoked again, in the same Run.
C20_DispatchFollowsRegistry ==
    \A t \in Threads :
        /\ ShimAnswered(t) =>
              LET r == thr[t].res
              IN  /\ r.called <=> (\E x \in thr[t].seen : x.name = r.name)
                  /\ r.called => r.h = Under(thr[t].seen, r.name)
                  /\ r.response.set => r.called
                  /\ thr[t].seen = {} => ~r.called /\ ~r.response.set
        /\ thr[t].pc = "callback" =>
              /\ thr[t].arg \in thr[t].seen
              /\ thr[t].arg.name \in registered

\* the agent was started once with "a" registered, the registry was emptied,
\* the other goroutine added the handler again, and a dispatch for "a"
\* answered the value of its callback
C20_Witness ==
    /\ ShimAnswered("t1")
    /\ thr["t1"].res.called /\ ~thr["t1"].res.failed
    /\ thr["t1"].res.response.set
    /\ thr["t2"].op = "Add" /\ thr["t2"].pc = "idle"
    /\ thr["t1"].res.h = thr["t2"].arg
    /\ phase = "served"
    /\ inits = 1 /\ agentRunning

\* C28: for every OID o with at least one component, parsing the string of
\* o gives back o: no error, the same length and the same components.
C28_ParseOfStringIsIdentity ==
    (oidCall.op = "Parse" /\ Len(oidR) >= 1) =>
        /\ oidCall.err = "nil"
        /\ Len(oidCall.o.v) = Len(oidR)
        /\ \A i \in 1..Len(oidR) : oidCall.o.v[i] = oidR[i]

\* the string of an OID of two components, one of them the largest uint32,
\* was parsed
C28_Witness ==
    /\ oidCall.op = "Parse"
    /\ Len(oidR) = 2 /\ oidR[1] = 1 /\ oidR[2] = U32 - 1
    /\ oidCall.o.v = oidR

\* C29: for all OIDs r and s, empty ones included, r.Add(s) has the length
\* of r plus the length of s, begins with r and ends with s, and
\* GetRemainder(r) of it succeeds with a result that has the components of s.
C29_AddThenRemainder ==
    /\ oidCall.op = "Add" =>
          LET sum == oidCall.o.v
          IN  /\ Len(sum) = Len(oidR) + Len(oidS)
              /\ \A i \in 1..Len(oidR) : sum[i] = oidR[i]
              /\ \A i \in 1..Len(oidS) : sum[Len(oidR) + i] = oidS[i]
    /\ oidCall.op = "RemainderOfSum" =>
          /\ oidCall.err = "nil"
          /\ Len(oidCall.o.v) = Len(oidS)
          /\ \A i \in 1..Len(oidS) : oidCall.o.v[i] = oidS[i]

\* the remainder of a sum of two OIDs of two components was taken
C29_Witness ==
    /\ oidCall.op = "RemainderOfSum"
    /\ Len(oidR) = 2 /\ Len(oidS) = 2 /\ oidR # oidS
    /\ oidCall.o = OIDVal(oidS)

\* C30: GetRemainder(root) succeeds exactly when root is a prefix of the
\* receiver, the receiver itself included, and then returns the components
\* after root; in every other case, a longer root and a root of the same
\* length with other components included, it fails with OIDNotMatch.
C30_RemainderOnlyOfPrefix ==
    oidCall.op = "GetRemainder" =>
        IF IsPrefixSeq(oidS, oidR)
        THEN /\ oidCall.err = "nil"
             /\ oidCall.o.v = SubSeq(oidR, Len(oidS) + 1, Len(oidR))
        ELSE oidCall.err = "OIDNotMatch"

\* C21: while the callback of a handler executes inside the dispatch shim
\* the registry lock is not held by the dispatching goroutine: it was taken
\* for the lookup only, so that an Add, Remove or RemoveAll of another
\* goroutine takes the lock without waiting for the callback.
C21_NoLockAcrossCallback ==
    \A t \in Threads :
        thr[t].pc = "callback" =>
            /\ ~Holds(mutex, t)
            /\ \A u \in Threads \ {t} :
                  (thr[u].pc = "idle" /\ ~CanLock(mutex)) =>
                      \E w \in Threads \ {t} : Holds(mutex, w)

\* a RemoveAll of the other goroutine has emptied the registry while the
\* callback of the handler that the lookup found has not returned
C21_Witness ==
    /\ thr["t1"].pc = "callback"
    /\ thr["t1"].arg \in thr["t1"].seen
    /\ thr["t2"].op = "RemoveAll" /\ thr["t2"].pc = "idle"
    /\ thr["t2"].seen = thr["t1"].seen
    /\ added = {} /\ mutex = FreeMutex

\* the goroutines inside the registry, as writers and as readers
WritersInside == {t \in Threads : thr[t].pc = "write"}
ReadersInside == {t \in Threads : thr[t].pc \in {"read", "allRead", "shimGet"}}

\* C22: in every interleaving no two writers (Add, Remove, RemoveAll) are
\* inside the registry together and no reader (Get, All) is inside with a
\* writer, while several readers may be inside together; a call that has
\* returned holds no lock.
C22_WritersExcludeAll ==
    /\ Cardinality(WritersInside) <= 1
    /\ WritersInside # {} => ReadersInside = {}
    /\ mutex.readers = ReadersInside
    /\ mutex.writer # "" => mutex.writer \in WritersInside
    /\ \A t \in WritersInside : mutex.writer = t
    /\ \A t \in Threads :
          thr[t].pc \in {"idle", "loop", "callback"} => ~Holds(mutex, t)

\* two readers are inside the registry together, one in Get, one in All
C22_Witness ==
    /\ thr["t1"].pc = "read" /\ thr["t1"].op = "Get"
    /\ thr["t2"].pc = "read" /\ thr["t2"].op = "All"
    /\ mutex.readers = Threads
    /\ added # {}

\* the goroutine t calls Run in this step
CallsRun(t) ==
    /\ thr[t].pc = "idle"
    /\ thr'[t] # thr[t]
    /\ thr'[t].op = "Run"
    /\ thr'[t].pc \in {"idle", "checkInit"}

\* C23: a call of Run made while Running() is true returns AlreadyRunning
\* and does nothing else: it does not initialise the adapter, registers no
\* handler and enters no second run loop.
C23_RunWhileRunning ==
    [][\A t \in Threads :
          (CallsRun(t) /\ Running) =>
              /\ thr'[t].pc = "idle"
              /\ thr'[t].res = [kind |-> "run", err |-> "AlreadyRunning"]
              /\ UNCHANGED <<initialized, inits, registered, keepRunning,
                             agentRunning, handlers, mutex, added>>]_vars

\* Run was called by the second goroutine while the first was in the run
\* loop, and returned AlreadyRunning
C23_Witness ==
    /\ thr["t1"].pc = "loop" /\ agentRunning
    /\ thr["t2"].pc = "idle" /\ thr["t2"].op = "Run"
    /\ thr["t2"].res = [kind |-> "run", err |-> "AlreadyRunning"]
    /\ inits = 1

\* Stop was called by another goroutine after the goroutine t had invoked
\* the Run it is inside
StopCalledDuringRun(t) ==
    /\ t \in InRun
    /\ \E u \in Threads \ {t} :
          /\ thr[u].op = "Stop" /\ thr[u].pc = "idle"
          /\ t \in thr[u].res.during

\* C24: if Stop is called at any moment after Run has been invoked from
\* another goroutine, the run loop is eventually left: Run returns nil and
\* Running() reports false (unless the goroutine that called Stop goes on
\* to call Run itself).
C24_StopEndsRun ==
    \A t \in Threads :
        StopCalledDuringRun(t) ~>
            \/ /\ thr[t].pc = "idle"
               /\ thr[t].res = [kind |-> "run", err |-> "nil"]
               /\ ~Running
            \/ \E u \in Threads \ {t} : thr[u].op = "Run"

\* C25: across any sequence of Run and Stop calls init_agent is executed at
\* most once, in the first Run that passes the running check and before any
\* handler is registered with the master; later Runs do not repeat it.
C25_InitOnce ==
    /\ inits <= 1
    /\ initialized <=> inits = 1
    /\ registered # {} => inits = 1
    /\ \A t \in Threads :
          thr[t].pc \in {"all", "allRead", "register", "enter", "loop",
                         "shim", "shimGet", "callback"} => inits = 1

\* C26: in every Run that does not return AlreadyRunning, each handler that
\* was in the registry when Run read it is registered with the master, after
\* init_agent and before the run loop is entered.
C26_RegisteredBeforeLoop ==
    [][\A t \in Threads :
          /\ (thr[t].pc = "register" /\ thr'[t] # thr[t]) =>
                /\ thr'[t].pc = "enter"
                /\ \A h \in thr[t].res.hs : h.name \in registered'
                /\ initialized /\ inits >= 1
          /\ (thr'[t].pc = "loop" /\ thr[t].pc \notin
                  {"loop", "shim", "shimGet", "callback"}) =>
                thr[t].pc = "enter"]_vars

\* the buffers allocated and not released
Outstanding == {b \in Buffers : heap[b].state = "live"}

\* C27: a string handler holds at most one outstanding response buffer at
\* any time: each successful invocation releases the buffer stored before,
\* once, before the new one is stored; no buffer is released twice; a failed
\* callback leaves the stored buffer untouched; and the buffer handed to the
\* adapter is not released before snmp_set_var_typed_value has returned.
C27_OneBufferOwned ==
    /\ [](/\ Cardinality(Outstanding) <= 1
          /\ \A b \in Buffers : heap[b].released <= 1
          /\ \A t \in Threads :
                inv[t].pc \in {"set", "store"} =>
                    heap[inv[t].cs].state = "live"
          /\ (\A t \in Threads : inv[t].pc = "idle") =>
                Outstanding = {b \in Buffers : b = storage})
    /\ [][\A t \in Threads :
            /\ (inv[t].pc = "idle" /\ inv'[t] # inv[t]
                   /\ inv'[t].ended = "error") =>
                  UNCHANGED <<storage, heap>>
            /\ (inv[t].pc = "store" /\ inv'[t] # inv[t]) =>
                  /\ storage' = inv[t].cs
                  /\ storage # NilPointer =>
                        heap[storage] = [state |-> "released", released |-> 1]
       ]_vars

\* the components written in str: the pieces after its first dot
Written(str) == Tail(Split(str))

\* piece is an unsigned decimal number that fits 32 bits
IsUnsigned32(piece) ==
    /\ Len(piece) > 0
    /\ \A i \in 1..Len(piece) : IsDigit(piece[i])
    /\ DigitsValue(piece) < U32

\* C31: NewOIDFromString fails with BadOID whenever some component of the
\* string is not an unsigned decimal number of 32 bits (other text, a signed
\* number, an empty component, a blank, a value of 2^32 or more), and when it
\* succeeds the components of the OID are the decimal values written.
C31_ParseRejectsNonNumbers ==
    oidCall.op = "ParseString" =>
        LET w == Written(oidCall.str)
        IN  /\ (\E i \in 1..Len(w) : ~IsUnsigned32(w[i])) =>
                   oidCall.err = "BadOID"
            /\ oidCall.err = "nil" =>
                   /\ Len(oidCall.o.v) = Len(w)
                   /\ \A i \in 1..Len(w) :
                          /\ \A j \in 1..Len(w[i]) : IsDigit(w[i][j])
                          /\ oidCall.o.v[i] = DigitsValue(w[i])

\* C32: NewOIDFromString of the string "." succeeds and returns the OID of
\* length 0.
C32_DotIsEmptyOID ==
    (oidCall.op = "ParseString" /\ oidCall.str = <<".">>) =>
        /\ oidCall.err = "nil"
        /\ oidCall.o.v = <<>>

\* a comes strictly before b in pre-order: at the first position where they
\* differ a has the smaller component, or a is a proper prefix of b
Before(a, b) ==
    \/ Len(a) < Len(b) /\ IsPrefixSeq(a, b)
    \/ \E k \in 1..Len(a) :
          /\ k <= Len(b)
          /\ a[k] < b[k]
          /\ \A j \in 1..(k - 1) : a[j] = b[j]

\* what the i-th NextLeaf call of the walk was given
Fed(i) == IF i = 1 THEN oid ELSE trail[i - 1]

\* C33: every OID that NextLeaf returns is the exact child-index path of a
\* leaf of the tree (not of a subtree, not a position below a leaf), and it
\* comes strictly after the OID the call was given in pre-order.
C33_NextLeafReturnsLeafAfter ==
    \A i \in 1..Len(trail) :
        /\ IsPath(node, trail[i])
        /\ NodeAt(node, trail[i]).kind = "leaf"
        /\ Before(Fed(i), trail[i])

\* the OID that NextLeaf works on: <<1>> for the empty OID, a trailing 0
\* replaced by 1
Normalised(o) ==
    IF o = <<>> THEN <<1>>
    ELSE IF o[Len(o)] = 0 THEN [o EXCEPT ![Len(o)] = 1]
    ELSE o

\* o resolves to a subtree of t whose first child is itself a subtree, and
\* the recursive search below that first child finds no leaf
DeadFirstChild(t, o) ==
    LET thisBranch == GetLeaf(t, Normalised(o))
    IN  /\ thisBranch \notin {NilNode, PanicNode}
        /\ ~ChildrenNil(thisBranch)
        /\ Len(Children(thisBranch)) > 0
        /\ ~ChildrenNil(Children(thisBranch)[1])
        /\ NextLeaf(thisBranch, <<1>>) = NilOID

\* C34: when the OID given resolves to a subtree whose first child is a
\* subtree below which the recursive search finds no leaf, NextLeaf goes on
\* with the horizontal and upward search from the position of that subtree:
\* what it returns is absent or the path of a leaf after that position.
C34_DeadBranchFallsThrough ==
    \A i \in 1..Len(trail) :
        DeadFirstChild(node, Fed(i)) =>
            /\ IsPath(node, trail[i])
            /\ NodeAt(node, trail[i]).kind = "leaf"
            /\ Before(Normalised(Fed(i)), trail[i])

\* the OID that differs from o in its trailing component only: 1 for 0, 0
\* for 1
Twin(o) == [o EXCEPT ![Len(o)] = 1 - @]

\* what the first NextLeaf call of the walk returned
FirstReturn(tr, end) ==
    IF tr # <<>> THEN OIDVal(tr[1]) ELSE [st |-> end, v |-> <<>>]

\* C35: NextLeaf(node, p followed by 0) returns what NextLeaf(node, p
\* followed by 1) returns, for every tree and every p, and the OID of the
\* caller holds its trailing 0 after the call: the 1 is written to a copy.
C35_TrailingZeroIsOne ==
    [][(trail = <<>> /\ walkEnd = "running" /\ found' = NoCall
          /\ oid # <<>> /\ oid[Len(oid)] \in {0, 1})
        => /\ oid' = oid
           /\ FirstReturn(trail', walkEnd') = NextLeaf(node, Twin(oid))]_vars

\* the walk was started at an OID of two components that ends in 0, and the
\* call returned the path of a leaf below the subtree at the first component
C35_Witness ==
    /\ Len(oid) = 2 /\ oid[2] = 0
    /\ Len(trail) = 1
    /\ Len(trail[1]) > 2
    /\ trail[1][1] = oid[1]

ReaderFailed == scanErr /\ readerPc \in {"closeErrors", "closeLines", "done"}

\* C36: when the line reader has stopped because of a read error (not EOF)
\* while Serve waits in its loop, the value that Serve returns is that read
\* error.
C36_ReadErrorReturned ==
    [][(ReaderFailed /\ pc = "select" /\ pc' = "returned")
        => retErr' = "ReadError"]_vars

\* C38: after Serve has returned, for whatever reason, the line reader does
\* not stay blocked on the lines channel: it finishes, having closed both
\* channels, also when input lines remain unread.
C38_ReaderFinishes ==
    (pc = "returned") ~> (readerPc = "done" /\ errorsClosed /\ linesClosed)

\* the goroutines inside the blocking run loop of the adapter
InLoop == {t \in Threads : thr[t].pc \in {"loop", "shim", "shimGet", "callback"}}

\* C39: at any time at most one goroutine is inside the run loop of the
\* adapter and init_agent has been executed at most once, also when Run is
\* called from several goroutines at once: of two overlapping Run calls one
\* has returned AlreadyRunning, so at most one is past the running check.
C39_RunIsExclusive ==
    /\ Cardinality(InLoop) <= 1
    /\ inits <= 1
    /\ Cardinality(InRun) <= 1

\* the OIDs the calls of the walk were given, in order
FedOIDs == <<oid>> \o trail

\* NextLeaf is a function of the tree and the OID: a walk that is given the
\* same OID twice goes round for ever. No walk that ends is given an OID
\* twice.
NoOIDFedTwice ==
    walkEnd = "running" =>
        \A i, j \in 1..Len(FedOIDs) : FedOIDs[i] = FedOIDs[j] => i = j
====
